---- MODULE Spec2Model ----
(***************************************************************************)
(* Model of the magento-mcp core: the in-memory PlanStore, the             *)
(* IdempotencyLedger, the Guardrails confirmation gate and the two-phase   *)
(* commit handlers that use them.                                          *)
(*                                                                         *)
(* The specifications of the module:                                       *)
(*   Spec          the PlanStore driven directly                           *)
(*   SpecGuard     Guardrails.requireConfirmation on enumerated inputs     *)
(*   SpecCommit    catalog commits interleaving at their awaits            *)
(*   SpecHandlers  every commit handler on every kind of plan              *)
(*   SpecClient    the MagentoRestClient and its requests                  *)
(*   SpecSession   the SessionStore driven directly                        *)
(*   SpecAuth      the auth and scope tools and the audit log              *)
(*   SpecLedger    the IdempotencyLedger and its snapshot, over restarts   *)
(*   SpecLimits    the bulk cap and the price-change threshold as functions*)
(*   SpecCapped    prepare and commit calls, each counted with its outcome *)
(*   SpecScope     authenticated prepares and commits carrying a scope     *)
(*   SpecRun       commits interleaving with login, logout and set_default *)
(*   SpecOAuth     the OAuth 1.0a signature base string of a search        *)
(***************************************************************************)
EXTENDS Integers, Sequences, FiniteSets, TLC

VARIABLES
    plans,      \* PlanStore.plans : plan_id -> BulkPlan
    nextId,     \* number of plan ids handed out by uuidv4() so far
    now,        \* the wall clock (new Date()), in milliseconds
    ret,        \* history: the last PlanStore call, its argument and result
    returned,   \* history: plan_id -> how many times consume returned it
    dead,       \* history: plan ids consumed, or expired and evicted
    ledger,     \* IdempotencyLedger.entries : key -> IdempotencyEntry
    calls,      \* the commit calls dispatched so far, in dispatch order
    guard,      \* SpecGuard: the input of requireConfirmation and its outcome
    ledgerFile, \* the ledger's snapshot file, as JSON.parse would read it
    lret,       \* SpecLedger: the last IdempotencyLedger call (load, record)
    sessions,   \* SessionStore.sessions : sessionId -> SessionData
    sret,       \* history: the last SessionStore call and its result
    auditLog,   \* the audit log file: the records appended so far
    rest,       \* SpecClient: a MagentoRestClient, a request and its outcome
    received    \* history: the calls received where they are counted, and
                \* how the last of them ended

vars == <<plans, nextId, now, ret, returned, dead, ledger, calls, guard,
          ledgerFile, lret, sessions, sret, auditLog, rest, received>>

----------------------------------------------------------------------------
(* Bounds of the model *)

\* plan ids handed out in one run
MaxPlans == 2
\* clock ticks (of one minute) in one run
MaxTime == 3
\* records resolved by one prepare
MaxRecords == 2
\* config.planExpiryMinutes as configured for the run (default 30)
planExpiryMinutes == 1

\* milliseconds per minute, as in PlanStore.create
MsPerMinute == 60000

\* undefined / absent results
Absent == [absent |-> TRUE]

----------------------------------------------------------------------------
(* PlanStore *)

\* the action names that prepare handlers store in a plan
PlanActions ==
    { "catalog.commit_bulk_update", "pricing.commit_bulk_price_update" }

\* a generator that hands out the same id again
uuidv4_Repeating(n) == 1

\* uuidv4(): an id never handed out before (ids are numbered in issue order)
uuidv4(n) == n + 1

\* PlanStore.create: a fresh id, expires_at = now + expiryMinutes * 60000
PlanStore_create(ps, id, action, payload, affectedCount, expiryMinutes, t) ==
    LET plan == [ plan_id        |-> id,
                  action         |-> action,
                  created_at     |-> t,
                  expires_at     |-> t + expiryMinutes * MsPerMinute,
                  payload        |-> payload,
                  affected_count |-> affectedCount ]
    IN  [ plans |-> [ i \in DOMAIN ps \cup {id} |->
                        IF i = id THEN plan ELSE ps[i] ],
          ret   |-> plan ]

\* get without the expiry check
PlanStore_get_NoExpiry(ps, planId, t) ==
    IF planId \notin DOMAIN ps
    THEN [ plans |-> ps, ret |-> Absent ]
    ELSE [ plans |-> ps, ret |-> ps[planId] ]

\* PlanStore.get: lazy expiry, an expired plan is deleted and reported absent
PlanStore_get(ps, planId, t) ==
    IF planId \notin DOMAIN ps
    THEN [ plans |-> ps, ret |-> Absent ]
    ELSE IF ps[planId].expires_at < t
         THEN [ plans |-> [ i \in DOMAIN ps \ {planId} |-> ps[i] ],
                ret   |-> Absent ]
         ELSE [ plans |-> ps, ret |-> ps[planId] ]

\* consume that forgets to delete the plan it returns
PlanStore_consume_NoDelete(ps, planId, t) ==
    PlanStore_get(ps, planId, t)

\* PlanStore.consume: get, then delete the plan when one was found
PlanStore_consume(ps, planId, t) ==
    LET g == PlanStore_get(ps, planId, t)
    IN  IF g.ret # Absent
        THEN [ plans |-> [ i \in DOMAIN g.plans \ {planId} |-> g.plans[i] ],
               ret   |-> g.ret ]
        ELSE g

\* a cleanup that also evicts the plans expiring at this very instant
PlanStore_cleanup_AtExpiry(ps, t) ==
    LET expired == { i \in DOMAIN ps : ps[i].expires_at <= t }
    IN  [ plans |-> [ i \in DOMAIN ps \ expired |-> ps[i] ],
          ret   |-> Cardinality(expired) ]

\* PlanStore.cleanup: delete every plan whose expiry has passed, count them
PlanStore_cleanup(ps, t) ==
    LET expired == { i \in DOMAIN ps : ps[i].expires_at < t }
    IN  [ plans |-> [ i \in DOMAIN ps \ expired |-> ps[i] ],
          ret   |-> Cardinality(expired) ]

----------------------------------------------------------------------------
(* Spec: the PlanStore driven directly *)

\* the variables of the other specifications, left alone
OtherThanStore ==
    <<ledger, calls, guard, ledgerFile, lret, sessions, sret, auditLog, rest,
      received>>

\* the variables of the session, audit and client specifications
Elsewhere == <<lret, sessions, sret, auditLog, rest, received>>

\* no snapshot file on disk
NoFile == [ t |-> "nofile" ]

\* no SessionStore call made yet
NoSessionCall == [ n |-> 0, op |-> "none", id |-> "", result |-> Absent ]

\* no call received yet
NoCall == [ n |-> 0, outcome |-> Absent ]

\* the session store, the audit log and the snapshot file at server start
InitElsewhere ==
    /\ ledgerFile = NoFile
    /\ lret = [ op |-> "load" ]
    /\ sessions = << >>
    /\ sret = NoSessionCall
    /\ auditLog = << >>
    /\ rest = Absent
    /\ received = NoCall

NoRet == [ op |-> "none", id |-> 0, found |-> Absent, at |-> 0, plan |-> Absent ]

Init ==
    /\ plans = << >>
    /\ nextId = 0
    /\ now = 0
    /\ ret = NoRet
    /\ returned = [ i \in {} |-> 0 ]
    /\ dead = {}
    /\ ledger = << >>
    /\ calls = << >>
    /\ guard = Absent
    /\ InitElsewhere

\* the plan stored under id before a call, or Absent
Stored(ps, id) == IF id \in DOMAIN ps THEN ps[id] ELSE Absent

\* the ids a call removed from the store
Removed(before, after) == DOMAIN before \ DOMAIN after

Create ==
    /\ nextId < MaxPlans
    /\ \E action \in PlanActions, ttl \in 0..planExpiryMinutes :
         LET id == uuidv4(nextId)
             c  == PlanStore_create(plans, id, action, << >>, 0, ttl, now)
         IN  /\ plans' = c.plans
             /\ ret' = [ op |-> "create", id |-> id, found |-> Stored(plans, id),
                         at |-> now, plan |-> c.ret ]
             /\ returned' = [ i \in DOMAIN returned \cup {id} |->
                                IF i \in DOMAIN returned THEN returned[i] ELSE 0 ]
    /\ nextId' = nextId + 1
    /\ UNCHANGED <<now, dead, OtherThanStore>>

Get ==
    /\ \E id \in 1..nextId :
         LET g == PlanStore_get(plans, id, now)
         IN  /\ plans' = g.plans
             /\ ret' = [ op |-> "get", id |-> id, found |-> Stored(plans, id),
                         at |-> now, plan |-> g.ret ]
             /\ dead' = dead \cup Removed(plans, g.plans)
    /\ UNCHANGED <<nextId, now, returned, OtherThanStore>>

Consume ==
    /\ \E id \in 1..nextId :
         LET c == PlanStore_consume(plans, id, now)
         IN  /\ plans' = c.plans
             /\ ret' = [ op |-> "consume", id |-> id, found |-> Stored(plans, id),
                         at |-> now, plan |-> c.ret ]
             /\ returned' = IF c.ret # Absent
                            THEN [ returned EXCEPT ![id] = @ + 1 ]
                            ELSE returned
             /\ dead' = dead \cup Removed(plans, c.plans)
                             \cup (IF c.ret # Absent THEN {id} ELSE {})
    /\ UNCHANGED <<nextId, now, OtherThanStore>>

Cleanup ==
    /\ LET c == PlanStore_cleanup(plans, now)
       IN  /\ plans' = c.plans
           /\ ret' = [ op |-> "cleanup", id |-> 0, found |-> Absent,
                       at |-> now, plan |-> Absent, count |-> c.ret ]
           /\ dead' = dead \cup Removed(plans, c.plans)
    /\ UNCHANGED <<nextId, now, returned, OtherThanStore>>

\* a minute passes
Tick ==
    /\ now < MaxTime * MsPerMinute
    /\ now' = now + MsPerMinute
    /\ UNCHANGED <<plans, nextId, ret, returned, dead, OtherThanStore>>

Next ==
    \/ Create
    \/ Get
    \/ Consume
    \/ Cleanup
    \/ Tick

Spec == Init /\ [][Next]_vars

----------------------------------------------------------------------------
(* Properties of the PlanStore, checked under Spec *)

\* what get and consume would answer for id in the current state
GetNow(id) == PlanStore_get(plans, id, now)
ConsumeNow(id) == PlanStore_consume(plans, id, now)

\* C1: consume(planId) returns the Plan at most once: no id is ever returned
\* by consume twice, and once consume has returned a plan every later get
\* and consume of that id answers absent.
C1_ConsumeAtMostOnce ==
    /\ \A id \in DOMAIN returned : returned[id] <= 1
    /\ \A id \in DOMAIN returned :
         returned[id] >= 1 =>
            /\ GetNow(id).ret = Absent
            /\ ConsumeNow(id).ret = Absent
    /\ (ret.op = "get" /\ ret.plan # Absent) => returned[ret.id] = 0
    /\ (ret.op = "consume" /\ ret.plan # Absent) => returned[ret.id] = 1

\* a second consume of an id that consume already returned answered absent
C1_Witness ==
    /\ ret.op = "consume"
    /\ ret.plan = Absent
    /\ ret.id \in DOMAIN returned
    /\ returned[ret.id] = 1

\* C6: a plan whose expiry has passed is absent from get and from consume,
\* consumed or not and swept or not, and the lookup that finds it expired
\* removes it from the store.
C6_ExpiredIsAbsent ==
    /\ \A id \in DOMAIN plans :
         plans[id].expires_at < now =>
            /\ GetNow(id).ret = Absent
            /\ id \notin DOMAIN GetNow(id).plans
            /\ ConsumeNow(id).ret = Absent
            /\ id \notin DOMAIN ConsumeNow(id).plans
    /\ ( /\ ret.op \in {"get", "consume"}
         /\ ret.found # Absent
         /\ ret.found.expires_at < ret.at )
       => (ret.plan = Absent /\ ret.id \notin DOMAIN plans)

\* a get found a never-consumed plan expired, answered absent and deleted it
C6_Witness ==
    /\ ret.op = "get"
    /\ ret.found # Absent
    /\ ret.found.expires_at < ret.at
    /\ returned[ret.id] = 0
    /\ ret.plan = Absent
    /\ ret.id \notin DOMAIN plans

\* C7: a plan id that was consumed, or expired and was evicted by get,
\* consume or cleanup, is never in the store again: get and consume of it
\* answer absent whatever calls follow.
C7_NeverRevived ==
    \A id \in dead :
        /\ id \notin DOMAIN plans
        /\ GetNow(id).ret = Absent
        /\ ConsumeNow(id).ret = Absent

\* a get of a dead id, made after a later create, answered absent
C7_Witness ==
    /\ ret.op = "get"
    /\ ret.id \in dead
    /\ ret.found = Absent
    /\ ret.plan = Absent
    /\ nextId > ret.id
    /\ plans # << >>

----------------------------------------------------------------------------
(* Guardrails.requireConfirmation *)

\* RiskTier enum
Safe == 1
Risk == 2
Critical == 3

\* longest reason string enumerated
MaxReasonLen == 2

\* JavaScript values that params.confirm and params.reason can hold
Null == [ t |-> "null" ]
Undefined == [ t |-> "undefined" ]
JsBool(b) == [ t |-> "boolean", v |-> b ]
JsNum(n) == [ t |-> "number", v |-> n ]
JsStr(s) == [ t |-> "string", v |-> s ]

\* characters of a reason string; String.prototype.trim strips WhiteSpace
WhiteSpace == { " ", "\t" }
Chars == WhiteSpace \cup { "a" }

\* the strings of at most n characters
Strings(n) == UNION { [ 1..k -> Chars ] : k \in 0..n }

\* JavaScript truthiness (!x is the negation)
Truthy(x) ==
    CASE x.t = "undefined" -> FALSE
      [] x.t = "null"      -> FALSE
      [] x.t = "boolean"   -> x.v
      [] x.t = "number"    -> x.v # 0
      [] x.t = "string"    -> Len(x.v) > 0

\* String.prototype.trim: drop leading and trailing white space
RECURSIVE TrimStart(_)
TrimStart(s) ==
    IF Len(s) > 0 /\ Head(s) \in WhiteSpace THEN TrimStart(Tail(s)) ELSE s

RECURSIVE TrimEnd(_)
TrimEnd(s) ==
    IF Len(s) > 0 /\ s[Len(s)] \in WhiteSpace
    THEN TrimEnd(SubSeq(s, 1, Len(s) - 1))
    ELSE s

trim(s) == TrimEnd(TrimStart(s))

\* the outcome of a guardrail: passed, or the GuardrailError thrown
Passed == [ ok |-> TRUE ]
GuardrailError(code, message) == [ ok |-> FALSE, code |-> code, message |-> message ]
\* new GuardrailError(code, message, details)
GuardrailErrorWith(code, message, details) ==
    [ ok |-> FALSE, code |-> code, message |-> message, details |-> details ]

\* a confirmation gate that accepts any truthy confirm
requireConfirmation_Truthy(riskTier, params, tier2ConfirmationRequired) ==
    IF riskTier >= Risk /\ tier2ConfirmationRequired
    THEN IF ~Truthy(params.confirm)
         THEN GuardrailError("CONFIRMATION_REQUIRED", "confirm")
         ELSE IF \/ ~Truthy(params.reason)
                 \/ params.reason.t # "string"
                 \/ Len(trim(params.reason.v)) = 0
              THEN GuardrailError("CONFIRMATION_REQUIRED", "reason")
              ELSE Passed
    ELSE Passed

\* Guardrails.requireConfirmation
requireConfirmation(riskTier, params, tier2ConfirmationRequired) ==
    IF riskTier >= Risk /\ tier2ConfirmationRequired
    THEN IF params.confirm # JsBool(TRUE)
         THEN GuardrailError("CONFIRMATION_REQUIRED", "confirm")
         ELSE IF \/ ~Truthy(params.reason)
                 \/ params.reason.t # "string"
                 \/ Len(trim(params.reason.v)) = 0
              THEN GuardrailError("CONFIRMATION_REQUIRED", "reason")
              ELSE Passed
    ELSE Passed

----------------------------------------------------------------------------
(* SpecGuard: requireConfirmation applied to enumerated inputs *)

ConfirmValues ==
    { Undefined, JsBool(TRUE), JsBool(FALSE), JsNum(1), JsStr(<<"a">>) }

ReasonValues ==
    { Undefined, JsBool(TRUE), JsNum(0), JsNum(1) }
        \cup { JsStr(s) : s \in Strings(MaxReasonLen) }

Pending == [ pending |-> TRUE ]

InitGuard ==
    /\ plans = << >>
    /\ nextId = 0
    /\ now = 0
    /\ ret = NoRet
    /\ returned = [ i \in {} |-> 0 ]
    /\ dead = {}
    /\ ledger = << >>
    /\ calls = << >>
    /\ InitElsewhere
    /\ \E tier \in { Safe, Risk, Critical },
          confirm \in ConfirmValues,
          reason \in ReasonValues,
          required \in BOOLEAN :
         guard = [ riskTier |-> tier,
                   params   |-> [ confirm |-> confirm, reason |-> reason ],
                   tier2ConfirmationRequired |-> required,
                   outcome  |-> Pending ]

CallRequireConfirmation ==
    /\ guard.outcome = Pending
    /\ guard' = [ guard EXCEPT !.outcome =
                    requireConfirmation(guard.riskTier, guard.params,
                                        guard.tier2ConfirmationRequired) ]
    /\ UNCHANGED <<plans, nextId, now, ret, returned, dead, ledger, calls>>
    /\ UNCHANGED <<ledgerFile, Elsewhere>>

NextGuard == CallRequireConfirmation

SpecGuard == InitGuard /\ [][NextGuard]_vars

\* params.confirm is the boolean true and params.reason is a string with at
\* least one character that is not white space
Confirmed(params) ==
    /\ params.confirm = JsBool(TRUE)
    /\ params.reason.t = "string"
    /\ \E i \in 1..Len(params.reason.v) : params.reason.v[i] \notin WhiteSpace

\* the call failed with the confirmation-required failure
ConfirmationRequired(outcome) ==
    /\ outcome # Pending
    /\ ~outcome.ok
    /\ outcome.code = "CONFIRMATION_REQUIRED"

\* C5 as stated: at or above Risk the call fails unless confirm is strictly
\* true and reason has a non-white-space character, whatever the
\* configuration; a Safe-tier call never fails.
C5_AsStated ==
    guard.outcome # Pending =>
        IF guard.riskTier >= Risk
        THEN ConfirmationRequired(guard.outcome) <=> ~Confirmed(guard.params)
        ELSE guard.outcome = Passed

\* C5 (amended): with config.tier2ConfirmationRequired set (the default),
\* a call at or above Risk fails with CONFIRMATION_REQUIRED exactly when
\* confirm is not the boolean true or reason is not a string with a
\* non-white-space character; a Safe-tier call never fails, and with the
\* flag off no call fails.
C5_ConfirmationGate ==
    guard.outcome # Pending =>
        IF guard.riskTier >= Risk /\ guard.tier2ConfirmationRequired
        THEN ConfirmationRequired(guard.outcome) <=> ~Confirmed(guard.params)
        ELSE guard.outcome = Passed

\* a Risk-tier call with confirm: true and a blank reason was refused
C5_Witness ==
    /\ guard.outcome # Pending
    /\ guard.riskTier = Risk
    /\ guard.tier2ConfirmationRequired
    /\ guard.params.confirm = JsBool(TRUE)
    /\ guard.params.reason = JsStr(<<" ", "\t">>)
    /\ ConfirmationRequired(guard.outcome)

----------------------------------------------------------------------------
(* IdempotencyLedger *)

\* IdempotencyLedger.get
IdempotencyLedger_get(entries, key) ==
    IF key \in DOMAIN entries THEN entries[key] ELSE Absent

\* IdempotencyLedger.record: entries.set(key, entry), whether or not the key
\* is already there
IdempotencyLedger_record(entries, key, action, resultSummary, t) ==
    LET entry == [ key            |-> key,
                   action         |-> action,
                   created_at     |-> t,
                   result_summary |-> resultSummary ]
    IN  [ k \in DOMAIN entries \cup {key} |->
            IF k = key THEN entry ELSE entries[k] ]

\* persist that writes one entry instead of all of them
IdempotencyLedger_persist_OneEntry(entries) ==
    [ t |-> "array",
      v |-> IF DOMAIN entries = {} THEN << >>
            ELSE << entries[CHOOSE k \in DOMAIN entries : TRUE] >> ]

\* IdempotencyLedger.persist: the snapshot is the list of the entries' values
\* (Array.from(entries.values())); the map's keys are not written
IdempotencyLedger_persist(entries) ==
    LET n     == Cardinality(DOMAIN entries)
        order == CHOOSE f \in [ 1..n -> DOMAIN entries ] :
                    \A i, j \in 1..n : i # j => f[i] # f[j]
    IN  [ t |-> "array", v |-> [ i \in 1..n |-> entries[order[i]] ] ]

\* the snapshot file after a handler that may have called record: record
\* rewrites the whole file from the entries it has just changed
Persisted(before, after, file) ==
    IF after # before THEN IdempotencyLedger_persist(after) ELSE file

----------------------------------------------------------------------------
(* The prepare and commit handlers *)

\* config.tier2ConfirmationRequired (default)
tier2ConfirmationRequired == TRUE
\* config.maxSkusPerBulkCommit as configured for the run (default 500)
maxSkusPerBulkCommit == 2

\* commit calls dispatched in one run
MaxCalls == 2

CatalogCommit == "catalog.commit_bulk_update"
PricingCommit == "pricing.commit_bulk_price_update"
CmsPagesCommit == "cms.commit_bulk_update_pages"
CmsBlocksCommit == "cms.commit_bulk_update_blocks"
SeoCommit == "seo.commit_bulk_update_url_keys"
PromotionsCommit == "promotions.commit_cart_price_rule_create"

\* the commit actions; each prepare handler stores the name of its commit
CommitActions ==
    { CatalogCommit, PricingCommit, CmsPagesCommit, CmsBlocksCommit,
      SeoCommit, PromotionsCommit }

\* the commit handlers that loop over the records of a payload
BulkCommits == CommitActions \ { PromotionsCommit }

\* the handlers that consult and write the idempotency ledger
UsesLedger(action) == action \in { CatalogCommit, PricingCommit }

\* the payload property a handler's loop iterates
RecordsField(action) ==
    CASE action = CatalogCommit   -> "skus"
      [] action = PricingCommit   -> "skus"
      [] action = CmsPagesCommit  -> "page_ids"
      [] action = CmsBlocksCommit -> "block_ids"
      [] action = SeoCommit       -> "changes"
      [] OTHER                    -> "rule"

\* the prepare handlers that check the bulk cap
ChecksBulkCap(action) == action \in { CatalogCommit, PricingCommit, SeoCommit }

\* the prepare handlers that check a field allow-list
ChecksAllowedFields(action) ==
    action \in { CatalogCommit, CmsPagesCommit, CmsBlocksCommit }

\* the payload a prepare handler stores for n resolved records: the records
\* under the handler's own property, and scope: validated.scope
Payload(action, n, scope) ==
    [ field |-> RecordsField(action), records |-> [ i \in 1..n |-> i ],
      scope |-> scope ]

\* payload.<field>: the records, or undefined when the payload has no such
\* property
Property(payload, field) ==
    IF payload.field = field
    THEN [ t |-> "array", v |-> payload.records ]
    ELSE Undefined

\* a bulk cap that refuses a count equal to the cap
enforceBulkSkuCap_AtCap(maxSkus, count) ==
    IF count >= maxSkus
    THEN GuardrailErrorWith("BULK_CAP_EXCEEDED", "cap",
                            [ count |-> count, cap |-> maxSkus ])
    ELSE Passed

\* Guardrails.enforceBulkSkuCap, under config.maxSkusPerBulkCommit = maxSkus
enforceBulkSkuCap(maxSkus, count) ==
    IF count > maxSkus
    THEN GuardrailErrorWith("BULK_CAP_EXCEEDED", "cap",
                            [ count |-> count, cap |-> maxSkus ])
    ELSE Passed

\* CommitPlanSchema.parse: confirm is literally true, reason is a string of
\* at least one character, idempotency_key is a string when present
CommitPlanSchema_parse(params) ==
    /\ params.confirm = JsBool(TRUE)
    /\ params.reason.t = "string"
    /\ Len(params.reason.v) >= 1
    /\ params.idempotency_key.t \in { "undefined", "string" }

\* the confirm / reason pairs callers present
Confirmations ==
    { [ confirm |-> JsBool(TRUE), reason |-> JsStr(<<"a">>) ],
      [ confirm |-> JsBool(TRUE), reason |-> JsStr(<<" ">>) ],
      [ confirm |-> Undefined,    reason |-> Undefined ] }

\* the summary string of a bulk commit, by its parts
Summary(action, successCount, total, errorCount) ==
    [ by |-> action, success |-> successCount, total |-> total,
      errors |-> errorCount ]

\* a thrown error, as the dispatcher reports it
Thrown(message) == [ kind |-> "error", message |-> message ]

\* a call that is suspended at an await or has returned
Call(action, params, pc, plan, i, successCount, errors, issued, outcome) ==
    [ action |-> action, params |-> params, pc |-> pc, plan |-> plan,
      i |-> i, successCount |-> successCount, errors |-> errors,
      issued |-> issued, outcome |-> outcome ]

\* a tail that leaves the failed records out of its counts
Finish_DropsFailures(call, entries, t) ==
    [ ledger |-> entries,
      call   |-> [ call EXCEPT
                     !.pc = "done",
                     !.outcome =
                        [ kind          |-> "result",
                          message       |-> Summary(call.action,
                                                    call.successCount,
                                                    call.successCount, 0),
                          success_count |-> call.successCount,
                          error_count   |-> 0,
                          errors        |-> Undefined ] ] ]

\* the tail of a bulk commit handler, after its loop: build the summary,
\* record it under the idempotency key, return the counts
Finish(call, entries, t) ==
    LET n       == Len(call.plan.payload.records)
        summary == Summary(call.action, call.successCount, n, Len(call.errors))
        key     == call.params.idempotency_key
    IN  [ ledger |-> IF UsesLedger(call.action) /\ Truthy(key)
                     THEN IdempotencyLedger_record(entries, key.v, call.action,
                                                   summary, t)
                     ELSE entries,
          call   |-> [ call EXCEPT
                         !.pc = "done",
                         !.outcome =
                            [ kind          |-> "result",
                              message       |-> summary,
                              success_count |-> call.successCount,
                              error_count   |-> Len(call.errors),
                              errors        |-> IF Len(call.errors) > 0
                                                THEN [ t |-> "array",
                                                       v |-> call.errors ]
                                                ELSE Undefined ] ] ]

\* a handler that starts the mutation calls of all its records at once
ConsumeAndStart_AllAtOnce(action, params, ps, entries, t) ==
    LET c       == PlanStore_consume(ps, params.plan_id, t)
        records == IF c.ret = Absent THEN Undefined
                   ELSE Property(c.ret.payload, RecordsField(action))
    IN  IF c.ret = Absent \/ action = PromotionsCommit
           \/ records.t = "undefined"
        THEN [ plans |-> c.plans, ledger |-> entries,
               call |-> Call(action, params, "done", c.ret, 0, 0, << >>, << >>,
                             Thrown("Plan not found or expired")) ]
        ELSE IF Len(records.v) = 0
        THEN [ plans |-> c.plans, ledger |-> entries,
               call |-> Call(action, params, "done", c.ret, 0, 0, << >>, << >>,
                             Thrown("nothing to do")) ]
        ELSE [ plans |-> c.plans, ledger |-> entries,
               call |-> Call(action, params, "await", c.ret, 1, 0, << >>,
                             records.v, Pending) ]

\* a commit handler from planStore.consume to its first await (or its end)
ConsumeAndStart(action, params, ps, entries, t) ==
    LET c       == PlanStore_consume(ps, params.plan_id, t)
        records == IF c.ret = Absent THEN Undefined
                   ELSE Property(c.ret.payload, RecordsField(action))
        blank(pc, outcome) ==
            Call(action, params, pc, c.ret, 0, 0, << >>, << >>, outcome)
    IN  IF c.ret = Absent
        THEN [ plans |-> c.plans, ledger |-> entries,
               call |-> blank("done", Thrown("Plan not found or expired")) ]
        ELSE IF action = PromotionsCommit
        THEN [ plans |-> c.plans, ledger |-> entries,
               call |-> Call(action, params, "await", c.ret, 1, 0, << >>,
                             <<"rule">>, Pending) ]
        ELSE IF records.t = "undefined"
        THEN [ plans |-> c.plans, ledger |-> entries,
               call |-> blank("done", Thrown("TypeError: not iterable")) ]
        ELSE IF Len(records.v) = 0
        THEN LET f == Finish(blank("done", Pending), entries, t)
             IN  [ plans |-> c.plans, ledger |-> f.ledger, call |-> f.call ]
        ELSE [ plans |-> c.plans, ledger |-> entries,
               call |-> Call(action, params, "await", c.ret, 1, 0, << >>,
                             << records.v[1] >>, Pending) ]

\* a handler that consumes the plan before it looks the key up
CommitHandler_ConsumesFirst(action, params, ps, entries, t) ==
    LET key      == params.idempotency_key
        existing == IF UsesLedger(action) /\ Truthy(key)
                    THEN IdempotencyLedger_get(entries, key.v)
                    ELSE Absent
        started  == ConsumeAndStart(action, params, ps, entries, t)
    IN  IF existing # Absent
        THEN [ plans |-> started.plans, ledger |-> entries,
               call |-> Call(action, params, "done", Absent, 0, 0, << >>, << >>,
                             [ kind |-> "replayed",
                               previous_result |-> existing.result_summary ]) ]
        ELSE started

\* a commit handler up to its first await: the idempotency check, then
\* consume and the first mutation call
CommitHandler(action, params, ps, entries, t) ==
    LET key      == params.idempotency_key
        existing == IF UsesLedger(action) /\ Truthy(key)
                    THEN IdempotencyLedger_get(entries, key.v)
                    ELSE Absent
    IN  IF existing # Absent
        THEN [ plans |-> ps, ledger |-> entries,
               call |-> Call(action, params, "done", Absent, 0, 0, << >>, << >>,
                             [ kind |-> "replayed",
                               previous_result |-> existing.result_summary ]) ]
        ELSE ConsumeAndStart(action, params, ps, entries, t)

----------------------------------------------------------------------------------------------------------------------------------------
(* The steps of the handlers, over a chosen set of actions *)

\* a prepare handler that stores its plan before it checks the bulk cap
PrepareHandler_StoresFirst(action, count, allowed, scope, maxSkus, ps, ids, t) ==
    LET fields == IF ChecksAllowedFields(action) /\ ~allowed
                  THEN GuardrailError("VALIDATION_ERROR", "fields")
                  ELSE Passed
        cap    == IF ChecksBulkCap(action)
                  THEN enforceBulkSkuCap(maxSkus, count)
                  ELSE Passed
        c      == PlanStore_create(ps, uuidv4(ids), action,
                                   Payload(action, count, scope), count,
                                   planExpiryMinutes, t)
    IN  IF fields # Passed
        THEN [ plans |-> ps, nextId |-> ids, outcome |-> fields ]
        ELSE [ plans |-> c.plans, nextId |-> ids + 1, outcome |-> cap ]

\* a prepare handler: the allow-list of fields, the bulk cap on the number
\* of records resolved, then planStore.create (which draws the plan id);
\* allowed tells whether the fields asked for are all on the allow-list
PrepareHandler(action, count, allowed, scope, maxSkus, ps, ids, t) ==
    LET fields == IF ChecksAllowedFields(action) /\ ~allowed
                  THEN GuardrailError("VALIDATION_ERROR", "fields")
                  ELSE Passed
        cap    == IF ChecksBulkCap(action)
                  THEN enforceBulkSkuCap(maxSkus, count)
                  ELSE Passed
        c      == PlanStore_create(ps, uuidv4(ids), action,
                                   Payload(action, count, scope), count,
                                   planExpiryMinutes, t)
    IN  IF fields # Passed
        THEN [ plans |-> ps, nextId |-> ids, outcome |-> fields ]
        ELSE IF cap # Passed
        THEN [ plans |-> ps, nextId |-> ids, outcome |-> cap ]
        ELSE [ plans |-> c.plans, nextId |-> ids + 1, outcome |-> Passed ]

\* the tool callback received one more call, which ended with outcome
OneMore(outcome) == [ n |-> received.n + 1, outcome |-> outcome ]

\* what a specification records of a call and how it ended: one more call
\* where the calls are counted, nothing where no history of them is kept
Log(counted, outcome) ==
    IF counted THEN received' = OneMore(outcome) ELSE UNCHANGED received

\* the callers that name no scope
NoScope == { Undefined }

\* a prepare handler: its guardrails, then planStore.create; counted says
\* whether the specification keeps a history of its calls
PrepareOf(actions, scopes, maxPlans, maxSkus, counted) ==
    /\ nextId < maxPlans
    /\ \E action \in actions, n \in 0..MaxRecords, allowed \in BOOLEAN,
          scope \in scopes :
         LET count == IF action = PromotionsCommit THEN 1 ELSE n
             h     == PrepareHandler(action, count, allowed, scope, maxSkus,
                                     plans, nextId, now)
         IN  /\ (action = PromotionsCommit => n = 1 /\ scope = Undefined)
             /\ (~ChecksAllowedFields(action) => allowed)
             /\ plans' = h.plans
             /\ nextId' = h.nextId
             /\ Log(counted, h.outcome)
    /\ UNCHANGED <<now, ret, returned, dead, ledger, calls, guard>>
    /\ UNCHANGED <<ledgerFile, lret, sessions, sret, auditLog, rest>>

\* a commit call is dispatched and runs to its first await; a call that the
\* schema or the confirmation gate refuses changes nothing
CommitOf(actions, keys, maxCalls, counted) ==
    /\ Len(calls) < maxCalls
    /\ \E action \in actions, planId \in 0..nextId,
          key \in keys, cf \in Confirmations :
         LET params == [ plan_id |-> planId, confirm |-> cf.confirm,
                         reason |-> cf.reason, idempotency_key |-> key ]
             gate   == requireConfirmation(Risk, params,
                                           tier2ConfirmationRequired)
             h      == CommitHandler(action, params, plans, ledger, now)
         IN  IF ~CommitPlanSchema_parse(params) \/ gate # Passed
             THEN /\ UNCHANGED <<plans, ledger, calls, ledgerFile>>
                  /\ Log(counted, IF ~CommitPlanSchema_parse(params)
                         THEN Thrown("ZodError")
                         ELSE gate)
             ELSE /\ plans' = h.plans
                  /\ ledger' = h.ledger
                  /\ ledgerFile' = Persisted(ledger, h.ledger, ledgerFile)
                  /\ calls' = Append(calls, h.call)
                  /\ Log(counted, Passed)
    /\ UNCHANGED <<nextId, now, ret, returned, dead, guard>>
    /\ UNCHANGED <<lret, sessions, sret, auditLog, rest>>

\* a loop that gives up at the first record that fails
Respond_AbortsOnFailure ==
    \E c \in 1..Len(calls), ok \in BOOLEAN :
        LET call    == calls[c]
            records == call.plan.payload.records
        IN  /\ call.pc = "await"
            /\ calls' = [ calls EXCEPT ![c] =
                  IF ~ok \/ call.action = PromotionsCommit
                  THEN [ call EXCEPT !.pc = "done",
                                     !.outcome = Thrown("Magento API error") ]
                  ELSE IF call.i < Len(records)
                  THEN [ call EXCEPT
                           !.successCount = @ + 1,
                           !.i = @ + 1,
                           !.issued = Append(@, records[call.i + 1]) ]
                  ELSE Finish([ call EXCEPT !.successCount = @ + 1 ],
                              ledger, now).call ]
            /\ UNCHANGED <<plans, nextId, now, ret, returned, dead, guard,
                           ledger, ledgerFile, Elsewhere>>

\* the downstream platform answers the mutation call a commit awaits; the
\* handler runs on to its next await or to its end
Respond ==
    \E c \in 1..Len(calls), ok \in BOOLEAN :
        LET call    == calls[c]
            records == call.plan.payload.records
            counted == IF ok
                       THEN [ call EXCEPT !.successCount = @ + 1 ]
                       ELSE [ call EXCEPT !.errors = Append(@, records[call.i]) ]
            f       == Finish(counted, ledger, now)
        IN  /\ call.pc = "await"
            /\ IF call.action = PromotionsCommit
               THEN /\ calls' = [ calls EXCEPT ![c] =
                          [ call EXCEPT
                              !.pc = "done",
                              !.outcome =
                                 IF ok
                                 THEN [ kind |-> "result",
                                        message |-> "Cart price rule created" ]
                                 ELSE Thrown("Magento API error") ] ]
                    /\ UNCHANGED <<ledger, ledgerFile>>
               ELSE IF call.i < Len(records)
               THEN /\ calls' = [ calls EXCEPT ![c] =
                          [ counted EXCEPT
                              !.i = @ + 1,
                              !.issued = Append(@, records[call.i + 1]) ] ]
                    /\ UNCHANGED <<ledger, ledgerFile>>
               ELSE /\ calls' = [ calls EXCEPT ![c] = f.call ]
                    /\ ledger' = f.ledger
                    /\ ledgerFile' = Persisted(ledger, f.ledger, ledgerFile)
            /\ UNCHANGED <<plans, nextId, now, ret, returned, dead, guard,
                           Elsewhere>>

----------------------------------------------------------------------------
(* SpecCommit: catalog commits interleaving at their awaits *)

\* the handler whose calls race here (pricing's is the same code)
LedgerCommits == { CatalogCommit }

\* the idempotency keys callers present: none, the empty string, a key
IdempotencyKeys == { Undefined, JsStr(<< >>), JsStr(<<"k">>) }

InitCommit == Init

Prepare ==
    PrepareOf(LedgerCommits, NoScope, MaxPlans, maxSkusPerBulkCommit,
              FALSE)

Commit == CommitOf(LedgerCommits, IdempotencyKeys, MaxCalls, FALSE)

NextCommit ==
    \/ Prepare
    \/ Commit
    \/ Respond

SpecCommit == InitCommit /\ [][NextCommit]_vars


----------------------------------------------------------------------------
(* Properties of racing commits, checked under SpecCommit *)

\* the kind of a call's outcome; a suspended call has none yet
Kind(outcome) == IF outcome = Pending THEN "pending" ELSE outcome.kind

\* the call got the plan from planStore.consume
Received(c) == calls[c].plan # Absent

\* the call failed as plan-not-found and issued no mutation
NotFound(c) ==
    /\ calls[c].outcome = Thrown("Plan not found or expired")
    /\ calls[c].issued = << >>

\* the commit calls naming plan id p that got as far as planStore.consume
ReachedConsume(p) ==
    { c \in 1..Len(calls) :
        calls[c].params.plan_id = p /\ Kind(calls[c].outcome) # "replayed" }

\* C2: of the commit calls that name one plan id and reach planStore.consume,
\* however they interleave at their downstream PUT calls, exactly one
\* receives the plan and issues its records in order; every other one fails
\* as plan-not-found and issues no mutation.
C2_OneCommitPerPlan ==
    \A p \in 1..nextId :
        ReachedConsume(p) # {} =>
            \E w \in ReachedConsume(p) :
                /\ Received(w)
                /\ calls[w].plan.plan_id = p
                /\ calls[w].issued =
                      SubSeq(calls[w].plan.payload.records, 1, calls[w].i)
                /\ (calls[w].pc = "done" =>
                      calls[w].issued = calls[w].plan.payload.records)
                /\ \A c \in ReachedConsume(p) \ {w} :
                      ~Received(c) /\ NotFound(c)

\* C2 witness: a commit is suspended at a PUT of the plan it received while a
\* second commit naming the same plan id has failed as plan-not-found.
C2_Witness ==
    /\ Len(calls) = 2
    /\ calls[1].params.plan_id = calls[2].params.plan_id
    /\ calls[1].pc = "await"
    /\ Received(1)
    /\ calls[1].issued # << >>
    /\ NotFound(2)

\* a call that presents an idempotency key
HasKey(c) == calls[c].params.idempotency_key.t = "string"

\* C3: of two commit calls presenting the same idempotency key, the first of
\* which received its plan, the second issues no downstream mutation call
\* and returns the summary of the first, whatever plan id it names.
C3_SecondCallReplays ==
    \A c1, c2 \in 1..Len(calls) :
        ( /\ c1 < c2
          /\ HasKey(c1)
          /\ calls[c2].params.idempotency_key = calls[c1].params.idempotency_key
          /\ Received(c1) )
        => /\ calls[c2].issued = << >>
           /\ Kind(calls[c2].outcome) = "replayed"
           /\ (calls[c1].pc = "done" =>
                 calls[c2].outcome.previous_result = calls[c1].outcome.message)

\* the call ended in this step, every record of its plan attempted
EndsHere(c) ==
    /\ (c > Len(calls) \/ calls[c].pc = "await")
    /\ calls'[c].pc = "done"
    /\ Kind(calls'[c].outcome) = "result"
    /\ Len(calls'[c].issued) = Len(calls'[c].plan.payload.records)
    /\ calls'[c].successCount + Len(calls'[c].errors)
          = Len(calls'[c].plan.payload.records)

\* C25: a catalog commit goes in the order confirmation check, ledger
\* lookup, planStore.consume, the mutations record by record, ledger record:
\* every call that got to the lookup is confirmed, a replayed call consumed
\* no plan and issued nothing, the plan of a call is out of the store once
\* its first mutation is issued, and the ledger is written only in the step
\* in which a call ends with every record attempted, under that call's key.
C25_CommitOrder ==
    [][ /\ \A c \in 1..Len(calls') :
              /\ requireConfirmation(Risk, calls'[c].params,
                                     tier2ConfirmationRequired) = Passed
              /\ Kind(calls'[c].outcome) = "replayed" =>
                    calls'[c].plan = Absent /\ calls'[c].issued = << >>
              /\ calls'[c].issued # << >> =>
                    /\ calls'[c].plan # Absent
                    /\ calls'[c].plan.plan_id \notin DOMAIN plans'
        /\ \A c \in (Len(calls) + 1)..Len(calls') :
              Kind(calls'[c].outcome) = "replayed" => plans' = plans
        /\ ledger' # ledger =>
              \E c \in 1..Len(calls') :
                 /\ EndsHere(c)
                 /\ Truthy(calls'[c].params.idempotency_key)
                 /\ DOMAIN ledger' =
                       DOMAIN ledger \cup {calls'[c].params.idempotency_key.v}
      ]_vars

\* a keyed commit has ended after two mutation calls, its plan gone and its
\* entry in the ledger, and a later call with the key was replayed while
\* the plan it names is still stored
C25_Witness ==
    /\ Len(calls) = 2
    /\ calls[1].pc = "done"
    /\ Len(calls[1].issued) = 2
    /\ HasKey(1)
    /\ calls[1].params.idempotency_key.v \in DOMAIN ledger
    /\ calls[1].plan.plan_id \notin DOMAIN plans
    /\ Kind(calls[2].outcome) = "replayed"
    /\ calls[2].params.plan_id \in DOMAIN plans

\* C4: the ledger is append-only: a key that has an entry keeps that very
\* entry through every step.
C4_LedgerAppendOnly ==
    [][ \A k \in DOMAIN ledger :
          k \in DOMAIN ledger' /\ ledger'[k] = ledger[k] ]_vars

----------------------------------------------------------------------------
(* SpecHandlers: every commit handler on every kind of plan *)

\* plans prepared in one run of SpecHandlers
MaxHandlerPlans == 1
\* commit calls dispatched in one run of SpecHandlers
MaxHandlerCalls == 1

InitHandlers == Init

PrepareAny ==
    PrepareOf(CommitActions, NoScope, MaxHandlerPlans, maxSkusPerBulkCommit,
              FALSE)

CommitAny ==
    CommitOf(CommitActions, IdempotencyKeys, MaxHandlerCalls, FALSE)

NextHandlers ==
    \/ PrepareAny
    \/ CommitAny
    \/ Respond

SpecHandlers == InitHandlers /\ [][NextHandlers]_vars

----------------------------------------------------------------------------
(* Properties of the handlers on every kind of plan, under SpecHandlers *)

\* C8: a plan is consumed only by the commit handler named in the plan: a
\* call that received a plan (deleting it from the store) is a call of the
\* plan's own action, and a call of another action issues no mutation.
C8_ConsumedByMatchingHandler ==
    \A c \in 1..Len(calls) :
        /\ (Received(c) => calls[c].plan.action = calls[c].action)
        /\ (calls[c].issued # << >> => calls[c].plan.action = calls[c].action)

\* C9: every commit call that carries an idempotency key and returns a
\* result has an entry in the ledger under that key, whichever commit action
\* it is.
C9_KeyedCommitRecorded ==
    \A c \in 1..Len(calls) :
        (HasKey(c) /\ Kind(calls[c].outcome) = "result")
        => calls[c].params.idempotency_key.v \in DOMAIN ledger

\* a bulk commit that got through its loop
LoopFinished(c) ==
    /\ calls[c].action \in BulkCommits
    /\ calls[c].pc = "done"
    /\ Received(c)
    /\ Property(calls[c].plan.payload, RecordsField(calls[c].action)) # Undefined

\* C10: a bulk commit that got through its loop returns a result, never an
\* error, even when every record failed; the result's success count and
\* error count add up to the number of records in the consumed plan's
\* payload, and when a record failed its error list has exactly error_count
\* entries.
C10_CountsAddUp ==
    \A c \in 1..Len(calls) :
        /\ (LoopFinished(c) => Kind(calls[c].outcome) = "result")
        /\ (calls[c].action \in BulkCommits /\ Kind(calls[c].outcome) = "result")
           => LET r == calls[c].outcome
                  n == Len(calls[c].plan.payload.records)
              IN  /\ r.success_count + r.error_count = n
                  /\ r.success_count = calls[c].successCount
                  /\ IF r.error_count > 0
                     THEN /\ r.errors.t = "array"
                          /\ Len(r.errors.v) = r.error_count
                     ELSE r.errors = Undefined

\* C10 witness: a bulk commit of a plan of two records, both of which
\* failed, has returned a result reporting 0 successes and 2 errors.
C10_Witness ==
    \E c \in 1..Len(calls) :
        /\ calls[c].action \in BulkCommits
        /\ Kind(calls[c].outcome) = "result"
        /\ Len(calls[c].plan.payload.records) = 2
        /\ calls[c].outcome.success_count = 0
        /\ calls[c].outcome.error_count = 2
        /\ Len(calls[c].outcome.errors.v) = 2

\* the position of record r in the payload of the plan call c consumed
PositionOf(c, r) ==
    CHOOSE j \in 1..Len(calls[c].plan.payload.records) :
        calls[c].plan.payload.records[j] = r

\* a bulk commit that is in, or got through, its loop
InLoop(c) ==
    /\ calls[c].action \in BulkCommits
    /\ Received(c)
    /\ Property(calls[c].plan.payload, RecordsField(calls[c].action)) # Undefined

\* the mutation calls of call c that have been answered
Answered(c) == calls[c].successCount + Len(calls[c].errors)

\* C11: within a bulk commit a failed record is recorded once, against that
\* record, and the loop goes on: no record is attempted twice, every failed
\* record is one that was attempted, and once the handler has returned every
\* record of the payload has been attempted whatever failed before it.
C11_FailureIsolated ==
    \A c \in 1..Len(calls) :
        InLoop(c) =>
            LET call == calls[c]
                records == call.plan.payload.records
            IN  /\ \A j, k \in 1..Len(call.issued) :
                      j # k => call.issued[j] # call.issued[k]
                /\ \A j, k \in 1..Len(call.errors) :
                      j # k => call.errors[j] # call.errors[k]
                /\ \A j \in 1..Len(call.errors) :
                      \E k \in 1..Len(call.issued) :
                          call.issued[k] = call.errors[j]
                /\ (call.pc = "done" =>
                      /\ Len(call.issued) = Len(records)
                      /\ \A j \in 1..Len(records) :
                            \E k \in 1..Len(call.issued) :
                                call.issued[k] = records[j])

\* C11 witness: the first record of a two-record plan failed and the second
\* was attempted all the same; the handler returned 1 success and 1 error.
C11_Witness ==
    \E c \in 1..Len(calls) :
        /\ InLoop(c)
        /\ calls[c].pc = "done"
        /\ Len(calls[c].plan.payload.records) = 2
        /\ calls[c].errors = << calls[c].plan.payload.records[1] >>
        /\ calls[c].issued = calls[c].plan.payload.records
        /\ calls[c].successCount = 1

\* C12: within one bulk commit the mutation calls are issued in the order of
\* the payload's records, one at a time (at most one call is unanswered, and
\* none once the handler has returned), and the error list keeps that order.
C12_InOrderOneAtATime ==
    \A c \in 1..Len(calls) :
        InLoop(c) =>
            LET call == calls[c]
                records == call.plan.payload.records
            IN  /\ call.issued = SubSeq(records, 1, Len(call.issued))
                /\ Len(call.issued) - Answered(c) =
                      (IF call.pc = "await" THEN 1 ELSE 0)
                /\ \A j, k \in 1..Len(call.errors) :
                      j < k => PositionOf(c, call.errors[j])
                                 < PositionOf(c, call.errors[k])

\* C12 witness: the call for the second of two records is outstanding after
\* the call for the first has been answered.
C12_Witness ==
    \E c \in 1..Len(calls) :
        /\ InLoop(c)
        /\ calls[c].pc = "await"
        /\ calls[c].issued = calls[c].plan.payload.records
        /\ Len(calls[c].issued) = 2
        /\ Answered(c) = 1

----------------------------------------------------------------------------
(* MagentoRestClient *)

\* requests made of one client in a run
MaxRequests == 2

\* an OAuth 1.0 credential tuple
OAuthCredentials ==
    [ consumerKey |-> "ck", consumerSecret |-> "cs",
      token |-> "ot", tokenSecret |-> "ots" ]

\* MagentoRestClient.baseHeaders
baseHeaders == [ Authorization |-> Undefined ]

\* the error authHeaders throws when the client has nothing to sign with
NoAuthError == Thrown("MagentoRestClient: No auth token or OAuth credentials set")

\* authHeaders that signs with whatever token it has
authHeaders_NoCheck(oauth, token, method) ==
    IF oauth # Null
    THEN [ Authorization |-> [ t |-> "oauth", v |-> oauth.consumerKey ] ]
    ELSE [ Authorization |-> [ t |-> "bearer", v |-> token ] ]

\* MagentoRestClient.authHeaders: an OAuth header when the tuple is set, else
\* a Bearer header, else a thrown error
authHeaders(oauth, token, method) ==
    IF oauth # Null
    THEN [ Authorization |-> [ t |-> "oauth", v |-> oauth.consumerKey ] ]
    ELSE IF ~Truthy(token)
    THEN NoAuthError
    ELSE [ Authorization |-> [ t |-> "bearer", v |-> token ] ]

\* MagentoRestClient.get / post / put / delete: the headers are built while
\* the arguments of fetch are evaluated; fetch is called only if that
\* returned. status is the status of the response fetch resolves with.
Request(client, method, requireAuth, status) ==
    LET headers == IF method = "POST" /\ ~requireAuth
                   THEN baseHeaders
                   ELSE authHeaders(client.oauth, client.token, method)
        asked   == [ client EXCEPT
                       !.n = @ + 1,
                       !.last = [ method |-> method,
                                  requireAuth |-> requireAuth ] ]
    IN  IF headers = NoAuthError
        THEN [ asked EXCEPT !.outcome = NoAuthError ]
        ELSE [ asked EXCEPT
                 !.fetched = Append(@, [ method |-> method,
                                         headers |-> headers ]),
                 !.outcome = IF status = 200
                             THEN [ kind |-> "result", message |-> "data" ]
                             ELSE Thrown("Magento API Error") ]

\* the tokens a client is constructed with or given by setToken
Tokens == { Null, JsStr(<< >>), JsStr(<<"t">>) }

\* new MagentoRestClient(baseUrl, token), with or without setOAuth after it
InitClient ==
    /\ plans = << >>
    /\ nextId = 0
    /\ now = 0
    /\ ret = NoRet
    /\ returned = [ i \in {} |-> 0 ]
    /\ dead = {}
    /\ ledger = << >>
    /\ calls = << >>
    /\ guard = Absent
    /\ ledgerFile = NoFile
    /\ lret = [ op |-> "load" ]
    /\ sessions = << >>
    /\ sret = NoSessionCall
    /\ auditLog = << >>
    /\ received = NoCall
    /\ \E token \in Tokens, oauth \in { Null, OAuthCredentials } :
         rest = [ oauth |-> oauth, token |-> token, n |-> 0,
                  last |-> Absent, fetched |-> << >>, outcome |-> Pending ]

OtherThanClient ==
    <<plans, nextId, now, ret, returned, dead, ledger, calls, guard,
      ledgerFile, lret, sessions, sret, auditLog, received>>

\* MagentoRestClient.setToken
setToken ==
    /\ \E token \in { JsStr(<< >>), JsStr(<<"t">>) } :
         rest' = [ rest EXCEPT !.token = token ]
    /\ UNCHANGED OtherThanClient

\* MagentoRestClient.setOAuth
setOAuth ==
    /\ rest' = [ rest EXCEPT !.oauth = OAuthCredentials ]
    /\ UNCHANGED OtherThanClient

\* one request through get, post, put or delete
SendRequest ==
    /\ rest.n < MaxRequests
    /\ \E method \in { "GET", "POST", "PUT", "DELETE" },
          requireAuth \in BOOLEAN, status \in { 200, 500 } :
         /\ (method # "POST" => requireAuth)
         /\ rest' = Request(rest, method, requireAuth, status)
    /\ UNCHANGED OtherThanClient

NextClient ==
    \/ setToken
    \/ setOAuth
    \/ SendRequest

SpecClient == InitClient /\ [][NextClient]_vars

\* the step is a request that has to be authenticated
AuthenticatedRequest ==
    /\ rest'.n = rest.n + 1
    /\ rest'.last.requireAuth

\* C13: a request that has to be authenticated (GET, PUT, DELETE, POST with
\* requireAuth), made of a client with neither a credential tuple nor a
\* bearer token, fails with the no-credentials error and calls fetch not once.
C13_FailsBeforeNetwork ==
    [][ ( /\ AuthenticatedRequest
          /\ rest.oauth = Null
          /\ ~Truthy(rest.token) )
        => /\ rest'.outcome = NoAuthError
           /\ rest'.fetched = rest.fetched ]_vars

\* C13 witness: a client without credentials was asked for an authenticated
\* PUT; the request failed with the no-credentials error and nothing was
\* fetched.
C13_Witness ==
    /\ rest # Absent
    /\ rest.oauth = Null
    /\ rest.token = Null
    /\ rest.n = 1
    /\ rest.last = [ method |-> "PUT", requireAuth |-> TRUE ]
    /\ rest.outcome = NoAuthError
    /\ rest.fetched = << >>

----------------------------------------------------------------------------
(* SessionStore *)

\* SessionStore calls made in one run
MaxSessionCalls == 3

\* create that keeps the scope of the session it replaces
SessionStore_create_KeepsScope(ss, sessionId, baseUrl, token, username, t) ==
    LET session == [ sessionId    |-> sessionId,
                     baseUrl      |-> baseUrl,
                     token        |-> token,
                     username     |-> username,
                     defaultScope |-> IF sessionId \in DOMAIN ss
                                      THEN ss[sessionId].defaultScope
                                      ELSE Null,
                     createdAt    |-> t,
                     oauth        |-> Null ]
    IN  [ sessions |-> [ i \in DOMAIN ss \cup {sessionId} |->
                           IF i = sessionId THEN session ELSE ss[i] ],
          ret      |-> session ]

\* SessionStore.create: a session with the bearer token, no scope, no tuple
SessionStore_create(ss, sessionId, baseUrl, token, username, t) ==
    LET session == [ sessionId    |-> sessionId,
                     baseUrl      |-> baseUrl,
                     token        |-> token,
                     username     |-> username,
                     defaultScope |-> Null,
                     createdAt    |-> t,
                     oauth        |-> Null ]
    IN  [ sessions |-> [ i \in DOMAIN ss \cup {sessionId} |->
                           IF i = sessionId THEN session ELSE ss[i] ],
          ret      |-> session ]

\* SessionStore.createOAuth: a session with the tuple and the token 'oauth'
SessionStore_createOAuth(ss, sessionId, baseUrl, oauthCreds, username, t) ==
    LET session == [ sessionId    |-> sessionId,
                     baseUrl      |-> baseUrl,
                     token        |-> "oauth",
                     username     |-> username,
                     defaultScope |-> Null,
                     createdAt    |-> t,
                     oauth        |-> oauthCreds ]
    IN  [ sessions |-> [ i \in DOMAIN ss \cup {sessionId} |->
                           IF i = sessionId THEN session ELSE ss[i] ],
          ret      |-> session ]

\* SessionStore.get
SessionStore_get(ss, sessionId) ==
    IF sessionId \in DOMAIN ss THEN ss[sessionId] ELSE Undefined

\* setDefaultScope that makes a session for an id that has none
SessionStore_setDefaultScope_Creates(ss, sessionId, scope) ==
    [ sessions |-> [ i \in DOMAIN ss \cup {sessionId} |->
                       IF i # sessionId THEN ss[i]
                       ELSE IF i \in DOMAIN ss
                       THEN [ ss[i] EXCEPT !.defaultScope = scope ]
                       ELSE [ sessionId |-> sessionId, baseUrl |-> "",
                              token |-> "", username |-> "",
                              defaultScope |-> scope, createdAt |-> 0,
                              oauth |-> Null ] ],
      ret      |-> Undefined ]

\* SessionStore.setDefaultScope: sets the field of the session found, if any
SessionStore_setDefaultScope(ss, sessionId, scope) ==
    [ sessions |-> IF sessionId \in DOMAIN ss
                   THEN [ ss EXCEPT ![sessionId].defaultScope = scope ]
                   ELSE ss,
      ret      |-> Undefined ]

\* destroy that empties the registry when the id has no session
SessionStore_destroy_ClearsAll(ss, sessionId) ==
    IF sessionId \in DOMAIN ss
    THEN [ sessions |-> [ i \in DOMAIN ss \ {sessionId} |-> ss[i] ],
           ret      |-> TRUE ]
    ELSE [ sessions |-> << >>, ret |-> FALSE ]

\* SessionStore.destroy: Map.delete, true when a session was removed
SessionStore_destroy(ss, sessionId) ==
    [ sessions |-> [ i \in DOMAIN ss \ {sessionId} |-> ss[i] ],
      ret      |-> sessionId \in DOMAIN ss ]

\* SessionStore.getToken / getBaseUrl / getUsername / getDefaultScope /
\* getOAuthCredentials: the field, or null (?? null)
SessionStore_getToken(ss, sessionId) ==
    IF sessionId \in DOMAIN ss THEN ss[sessionId].token ELSE Null
SessionStore_getBaseUrl(ss, sessionId) ==
    IF sessionId \in DOMAIN ss THEN ss[sessionId].baseUrl ELSE Null
SessionStore_getUsername(ss, sessionId) ==
    IF sessionId \in DOMAIN ss THEN ss[sessionId].username ELSE Null
SessionStore_getDefaultScope(ss, sessionId) ==
    IF sessionId \in DOMAIN ss THEN ss[sessionId].defaultScope ELSE Null
SessionStore_getOAuthCredentials(ss, sessionId) ==
    IF sessionId \in DOMAIN ss THEN ss[sessionId].oauth ELSE Null

----------------------------------------------------------------------------
(* SpecSession: the SessionStore driven directly *)

SessionIds == { "default", "other" }

\* the logins callers present; no field of one equals that field of another
Logins ==
    { [ baseUrl |-> "https://a", token |-> "ta", username |-> "alice",
        oauth |-> OAuthCredentials ],
      [ baseUrl |-> "https://b", token |-> "tb", username |-> "bob",
        oauth |-> [ consumerKey |-> "ck2", consumerSecret |-> "cs2",
                    token |-> "ot2", tokenSecret |-> "ots2" ] ] }

Scopes == { [ store_view_code |-> "en" ], [ store_view_code |-> "de" ] }

OtherThanSessions ==
    <<plans, nextId, ret, returned, dead, ledger, calls, guard, ledgerFile,
      lret, auditLog, rest, received>>

\* the record of a SessionStore call
SessionCall(op, id, login, scope, result) ==
    [ n |-> sret.n + 1, op |-> op, id |-> id, login |-> login,
      scope |-> scope, result |-> result,
      existed |-> id \in DOMAIN sessions ]

InitSession == Init

Session_create ==
    /\ sret.n < MaxSessionCalls
    /\ \E id \in SessionIds, login \in Logins :
         LET c == SessionStore_create(sessions, id, login.baseUrl, login.token,
                                      login.username, now)
         IN  /\ sessions' = c.sessions
             /\ sret' = SessionCall("create", id, login, Null, c.ret)
    /\ UNCHANGED <<now, OtherThanSessions>>

Session_createOAuth ==
    /\ sret.n < MaxSessionCalls
    /\ \E id \in SessionIds, login \in Logins :
         LET c == SessionStore_createOAuth(sessions, id, login.baseUrl,
                                           login.oauth, login.username, now)
         IN  /\ sessions' = c.sessions
             /\ sret' = SessionCall("createOAuth", id, login, Null, c.ret)
    /\ UNCHANGED <<now, OtherThanSessions>>

Session_get ==
    /\ sret.n < MaxSessionCalls
    /\ \E id \in SessionIds :
         sret' = SessionCall("get", id, Null, Null,
                             SessionStore_get(sessions, id))
    /\ UNCHANGED <<sessions, now, OtherThanSessions>>

Session_setDefaultScope ==
    /\ sret.n < MaxSessionCalls
    /\ \E id \in SessionIds, scope \in Scopes :
         LET c == SessionStore_setDefaultScope(sessions, id, scope)
         IN  /\ sessions' = c.sessions
             /\ sret' = SessionCall("setDefaultScope", id, Null, scope, c.ret)
    /\ UNCHANGED <<now, OtherThanSessions>>

Session_destroy ==
    /\ sret.n < MaxSessionCalls
    /\ \E id \in SessionIds :
         LET c == SessionStore_destroy(sessions, id)
         IN  /\ sessions' = c.sessions
             /\ sret' = SessionCall("destroy", id, Null, Null, c.ret)
    /\ UNCHANGED <<now, OtherThanSessions>>

NextSession ==
    \/ Session_create
    \/ Session_createOAuth
    \/ Session_get
    \/ Session_setDefaultScope
    \/ Session_destroy
    \/ Tick

SpecSession == InitSession /\ [][NextSession]_vars

----------------------------------------------------------------------------
(* Properties of the SessionStore, checked under SpecSession *)

\* the step is a SessionStore call of operation op
SessionStep(op) == sret'.n = sret.n + 1 /\ sret'.op = op

\* C16: create and createOAuth on an id that already has a session do not
\* fail and replace the session whole: every field read for the id
\* afterwards is the new login's (the scope is reset to null, the creation
\* time is the time of the call), and sessions of other ids are left alone.
C16_ReloginReplaces ==
    [][ \A id \in DOMAIN sessions :
          ( (SessionStep("create") \/ SessionStep("createOAuth"))
            /\ sret'.id = id )
          => LET login == sret'.login
                 bearer == sret'.op = "create"
             IN  /\ sret'.result = SessionStore_get(sessions', id)
                 /\ sessions'[id].sessionId = id
                 /\ SessionStore_getBaseUrl(sessions', id) = login.baseUrl
                 /\ SessionStore_getUsername(sessions', id) = login.username
                 /\ SessionStore_getToken(sessions', id) =
                       (IF bearer THEN login.token ELSE "oauth")
                 /\ SessionStore_getOAuthCredentials(sessions', id) =
                       (IF bearer THEN Null ELSE login.oauth)
                 /\ SessionStore_getDefaultScope(sessions', id) = Null
                 /\ sessions'[id].createdAt = now
                 /\ \A other \in DOMAIN sessions \ {id} :
                       sessions'[other] = sessions[other] ]_vars

\* C16 witness: a session made by createOAuth, given a scope, was replaced by
\* a create with another login at a later time.
C16_Witness ==
    /\ sret.n = 3
    /\ sret.op = "create"
    /\ sret.id = "default"
    /\ sret.existed
    /\ sessions["default"].createdAt > 0
    /\ sessions["default"].oauth = Null
    /\ sessions["default"].defaultScope = Null
    /\ sessions["default"].username = "bob"

\* C17: destroy never fails; on an id with no session it reports false and
\* leaves the registry as it was; in every case the id has no session
\* afterwards and the other sessions are untouched, so a second destroy of
\* the same id changes nothing.
C17_DestroyIdempotent ==
    [][ SessionStep("destroy") =>
          LET id == sret'.id
          IN  /\ sret'.result \in BOOLEAN
              /\ sret'.result = (id \in DOMAIN sessions)
              /\ (id \notin DOMAIN sessions => sessions' = sessions)
              /\ DOMAIN sessions' = DOMAIN sessions \ {id}
              /\ \A other \in DOMAIN sessions' :
                    sessions'[other] = sessions[other]
              /\ SessionStore_destroy(sessions', id).sessions = sessions' ]_vars

\* C17 witness: the same id was destroyed twice in a row; the second call
\* reported false.
C17_Witness ==
    /\ sret.n = 3
    /\ sret.op = "destroy"
    /\ sret.id = "default"
    /\ ~sret.existed
    /\ sret.result = FALSE
    /\ "default" \notin DOMAIN sessions
    /\ "other" \in DOMAIN sessions

\* C18: setDefaultScope on an id with a session changes that session's
\* defaultScope and nothing else; on an id with no session it changes
\* nothing and creates nothing. A session changes in no other step than a
\* create, createOAuth, setDefaultScope or destroy of its own id.
C18_OnlyScopeMutable ==
    [][ /\ SessionStep("setDefaultScope") =>
             LET id == sret'.id
             IN  /\ DOMAIN sessions' = DOMAIN sessions
                 /\ \A i \in DOMAIN sessions :
                       sessions'[i] =
                          IF i = id
                          THEN [ sessions[i] EXCEPT
                                   !.defaultScope = sret'.scope ]
                          ELSE sessions[i]
        /\ \A i \in DOMAIN sessions :
              (i \in DOMAIN sessions' /\ sessions'[i] # sessions[i])
              => /\ sret'.n = sret.n + 1
                 /\ sret'.id = i
                 /\ sret'.op \in { "create", "createOAuth", "setDefaultScope" }
      ]_vars

\* C18 witness: setDefaultScope was called for an id with no session while
\* another id has one with a scope set; no session was made for it.
C18_Witness ==
    /\ sret.n = 3
    /\ sret.op = "setDefaultScope"
    /\ sret.id = "other"
    /\ ~sret.existed
    /\ "other" \notin DOMAIN sessions
    /\ "default" \in DOMAIN sessions
    /\ sessions["default"].defaultScope = [ store_view_code |-> "de" ]

----------------------------------------------------------------------------
(* The responses of the dispatchers *)

\* the tool callback of the MCP server: a handler's result is returned as it
\* is, a thrown error as { error: <its message> } with isError set
ToolResponse(outcome) ==
    IF outcome.kind = "error"
    THEN [ isError |-> TRUE,
           body    |-> [ error |-> [ t |-> "string", v |-> outcome.message ] ] ]
    ELSE [ isError |-> FALSE, body |-> outcome ]

\* StdioServer.handleError for an error that is no ZodError, GuardrailError
\* or MagentoApiException: the code is INTERNAL_ERROR
StdioResponse(outcome) ==
    IF outcome.kind = "error"
    THEN [ status |-> "error",
           error  |-> [ t |-> "object", code |-> "INTERNAL_ERROR",
                        message |-> outcome.message ] ]
    ELSE [ status |-> "success", result |-> outcome ]

\* the machine-readable kind of an error response, "" when it has none
ErrorCode(error) == IF error.t = "object" THEN error.code ELSE ""

\* a commit call that found no plan under the id it named
PlanLookupFailed(c) ==
    /\ calls[c].pc = "done"
    /\ Kind(calls[c].outcome) # "replayed"
    /\ ~Received(c)

\* C15: a commit call whose plan id is unknown, already consumed or expired
\* gets a failure whose machine-readable kind is PLAN_NOT_FOUND or
\* PLAN_EXPIRED, from either dispatcher.
C15_TypedPlanFailure ==
    \A c \in 1..Len(calls) :
        PlanLookupFailed(c) =>
            /\ ToolResponse(calls[c].outcome).isError
            /\ ErrorCode(ToolResponse(calls[c].outcome).body.error)
                  \in { "PLAN_NOT_FOUND", "PLAN_EXPIRED" }
            /\ ErrorCode(StdioResponse(calls[c].outcome).error)
                  \in { "PLAN_NOT_FOUND", "PLAN_EXPIRED" }

----------------------------------------------------------------------------
(* The snapshot file of the IdempotencyLedger *)

\* items in a snapshot file the ledger is constructed from
MaxSnapshotLen == 2

\* the Map key of a value whose key property is undefined
UndefinedKey == <<"undefined">>

\* IdempotencyLedger.has
IdempotencyLedger_has(entries, key) == key \in DOMAIN entries

\* entry.key of one element of the parsed list
KeyOf(item) == IF "key" \in DOMAIN item THEN item.key ELSE UndefinedKey

\* the for...of loop of load: entries.set(entry.key, entry) for each element;
\* reading .key of null throws
RECURSIVE LoadItems(_, _)
LoadItems(items, entries) ==
    IF items = << >>
    THEN [ thrown |-> FALSE, entries |-> entries ]
    ELSE IF Head(items) = Null
    THEN [ thrown |-> TRUE, entries |-> entries ]
    ELSE LoadItems(Tail(items),
                   [ k \in DOMAIN entries \cup { KeyOf(Head(items)) } |->
                       IF k = KeyOf(Head(items)) THEN Head(items)
                       ELSE entries[k] ])

\* IdempotencyLedger.load, from the constructor: no file, a file JSON.parse
\* rejects, a JSON value that is no array, or an array whose elements are set
\* one by one; any throw clears the entries
IdempotencyLedger_load(file) ==
    CASE file.t = "nofile"     -> << >>
      [] file.t = "unparsable" -> << >>
      [] file.t = "array"      ->
            LET l == LoadItems(file.v, << >>)
            IN  IF l.thrown THEN << >> ELSE l.entries
      [] OTHER                 -> << >>

----------------------------------------------------------------------------
(* SpecLedger: an IdempotencyLedger and its snapshot file, over restarts *)

LedgerKeys == { <<"a">>, <<"b">> }

\* an entry an earlier run wrote to the snapshot
OldEntry(key) ==
    [ key |-> key, action |-> CatalogCommit, created_at |-> 0,
      result_summary |-> "old" ]

\* the elements a snapshot file may hold: entries, null, a number
SnapshotItems == { OldEntry(k) : k \in LedgerKeys } \cup { Null, JsNum(5) }

\* the sequences over S of length up to n
RECURSIVE SeqUpTo(_, _)
SeqUpTo(S, n) ==
    IF n = 0 THEN { << >> }
    ELSE SeqUpTo(S, n - 1)
           \cup { Append(q, x) : q \in SeqUpTo(S, n - 1), x \in S }

\* the snapshot files a ledger may be constructed from
Snapshots ==
    { NoFile, [ t |-> "unparsable" ], [ t |-> "object" ] }
      \cup { [ t |-> "array", v |-> q ] :
               q \in SeqUpTo(SnapshotItems, MaxSnapshotLen) }

\* new IdempotencyLedger(filePath): the constructor loads the snapshot
InitLedger ==
    /\ plans = << >>
    /\ nextId = 0
    /\ now = 0
    /\ ret = NoRet
    /\ returned = [ i \in {} |-> 0 ]
    /\ dead = {}
    /\ calls = << >>
    /\ guard = Absent
    /\ sessions = << >>
    /\ sret = NoSessionCall
    /\ auditLog = << >>
    /\ rest = Absent
    /\ received = NoCall
    /\ lret = [ op |-> "load" ]
    /\ ledgerFile \in Snapshots
    /\ ledger = IdempotencyLedger_load(ledgerFile)

OtherThanLedger ==
    <<plans, nextId, ret, returned, dead, calls, guard, sessions, sret,
      auditLog, rest, received>>

\* IdempotencyLedger.record: set the entry, rewrite the snapshot
Ledger_record ==
    /\ \E key \in LedgerKeys, summary \in { "s1", "s2" } :
         /\ ledger' = IdempotencyLedger_record(ledger, key, CatalogCommit,
                                               summary, now)
         /\ ledgerFile' = IdempotencyLedger_persist(ledger')
         /\ lret' = [ op |-> "record" ]
    /\ UNCHANGED <<now, OtherThanLedger>>

\* the server is restarted: a new ledger is constructed from the snapshot
Ledger_restart ==
    /\ ledger' = IdempotencyLedger_load(ledgerFile)
    /\ lret' = [ op |-> "load" ]
    /\ UNCHANGED <<now, ledgerFile, OtherThanLedger>>

Ledger_tick ==
    /\ now < MaxTime * MsPerMinute
    /\ now' = now + MsPerMinute
    /\ UNCHANGED <<ledger, ledgerFile, lret, OtherThanLedger>>

NextLedger ==
    \/ Ledger_record
    \/ Ledger_restart
    \/ Ledger_tick

SpecLedger == InitLedger /\ [][NextLedger]_vars

----------------------------------------------------------------------------
(* Properties of the ledger and its snapshot, checked under SpecLedger *)

\* the snapshot parses into a list whose elements all are entries
IsListOfEntries(file) ==
    /\ file.t = "array"
    /\ \A i \in 1..Len(file.v) : "key" \in DOMAIN file.v[i]

\* C19: a ledger constructed from a snapshot file that is unparsable, not a
\* list, or a list of which only some elements are entries, starts empty:
\* has(key) is false for every key.
C19_CorruptStartsEmpty ==
    (lret.op = "load" /\ ledgerFile # NoFile /\ ~IsListOfEntries(ledgerFile))
    => \A key \in LedgerKeys : ~IdempotencyLedger_has(ledger, key)

\* a commit call presenting the idempotency key, for a plan id never issued
KeyedCommit(key) ==
    [ plan_id |-> 0, confirm |-> JsBool(TRUE), reason |-> JsStr(<<"a">>),
      idempotency_key |-> JsStr(key) ]

\* C20: after a record call the snapshot file holds the in-memory mapping: a
\* ledger constructed from the file answers has and get as the running one
\* does for every key, and a commit presenting a recorded key is
\* short-circuited by the ledger constructed from the file.
C20_SnapshotIsLedger ==
    lret.op = "record" =>
        LET restarted == IdempotencyLedger_load(ledgerFile)
        IN  \A key \in LedgerKeys :
              /\ IdempotencyLedger_has(restarted, key)
                    = IdempotencyLedger_has(ledger, key)
              /\ IdempotencyLedger_get(restarted, key)
                    = IdempotencyLedger_get(ledger, key)
              /\ IdempotencyLedger_has(ledger, key)
                    => Kind(CommitHandler(CatalogCommit, KeyedCommit(key),
                                          plans, restarted, now).call.outcome)
                          = "replayed"

\* C20 witness: two keys have been recorded, the second at a later time; the
\* snapshot holds both entries.
C20_Witness ==
    /\ lret.op = "record"
    /\ LedgerKeys \subseteq DOMAIN ledger
    /\ ledger[<<"a">>].result_summary = "s1"
    /\ ledger[<<"b">>].created_at > ledger[<<"a">>].created_at
    /\ ledgerFile.t = "array"
    /\ Len(ledgerFile.v) = 2

----------------------------------------------------------------------------
(* The audit log and the auth and scope tools *)

\* records in the audit log in one run
MaxAuditRecords == 3
MaxToolCalls == 3

\* the credentials a caller may pass to auth.login, by parameter name
Secrets ==
    [ password |-> "pw", integration_token |-> "it",
      oauth_consumer_secret |-> "cs", oauth_token |-> "ot",
      oauth_token_secret |-> "ots" ]

\* the bearer token the platform issues for a username and password
AdminToken == "bearer-from-platform"

\* every value that is a credential
SecretValues == { Secrets[p] : p \in DOMAIN Secrets } \cup { AdminToken }

\* the params objects callers pass to auth.login
LoginParams ==
    { [ base_url |-> "https://a", username |-> "alice", password |-> "pw" ],
      [ base_url |-> "https://a", integration_token |-> "it" ],
      [ base_url |-> "https://a", oauth_consumer_key |-> "ck",
        oauth_consumer_secret |-> "cs", oauth_token |-> "ot",
        oauth_token_secret |-> "ots" ],
      [ base_url |-> "https://a", username |-> "alice" ] }

\* params[name], with undefined for a property the object lacks
Param(params, name) ==
    IF name \in DOMAIN params THEN JsStr(params[name]) ELSE Undefined

\* AuditLogger.log: a copy of the record whose params lack the properties
\* 'password' and 'token' is appended to the log file
AuditLogger_log(log, record) ==
    LET kept == DOMAIN record.params \ { "password", "token" }
    IN  Append(log, [ record EXCEPT
                        !.params = [ p \in kept |-> record.params[p] ] ])

\* the record the tool callback builds after a handler returned or threw
AuditRecord(action, username, params, summary, t) ==
    [ timestamp |-> t, username |-> username, action |-> action,
      params |-> params, result_summary |-> summary ]

\* the auth.login handler: the OAuth tuple first, then the integration token,
\* then username and password through getAdminToken (ok: the platform
\* accepted them)
AuthLogin(ss, sessionId, params, ok, t) ==
    LET tuple == /\ Truthy(Param(params, "oauth_consumer_key"))
                 /\ Truthy(Param(params, "oauth_consumer_secret"))
                 /\ Truthy(Param(params, "oauth_token"))
                 /\ Truthy(Param(params, "oauth_token_secret"))
        username == IF "username" \in DOMAIN params
                    THEN params.username ELSE "integration"
    IN  IF tuple
        THEN [ sessions |->
                 SessionStore_createOAuth(ss, sessionId, params.base_url,
                    [ consumerKey    |-> params.oauth_consumer_key,
                      consumerSecret |-> params.oauth_consumer_secret,
                      token          |-> params.oauth_token,
                      tokenSecret    |-> params.oauth_token_secret ],
                    username, t).sessions,
               summary |-> "Login successful (OAuth 1.0 integration)" ]
        ELSE IF Truthy(Param(params, "integration_token"))
        THEN [ sessions |->
                 SessionStore_create(ss, sessionId, params.base_url,
                    params.integration_token, username, t).sessions,
               summary |-> "Login successful (integration token)" ]
        ELSE IF ~Truthy(Param(params, "username"))
                \/ ~Truthy(Param(params, "password"))
        THEN [ sessions |-> ss, summary |-> "object with keys: error" ]
        ELSE IF ~ok
        THEN [ sessions |-> ss, summary |-> "ERROR: Magento API Error (401)" ]
        ELSE [ sessions |->
                 SessionStore_create(ss, sessionId, params.base_url,
                    AdminToken, params.username, t).sessions,
               summary |-> "Login successful" ]

----------------------------------------------------------------------------
(* SpecAuth: the auth and scope tools through the tool callback *)

\* the session id of the stdio session
sessionId == "default"

OtherThanAuth ==
    <<plans, nextId, now, ret, returned, dead, ledger, calls, guard,
      ledgerFile, lret, sret, rest>>

\* the tool callback's check for an action that requires authentication:
\* sessionStore.getToken(sessionId) is a non-empty string
HasToken(ss, id) == id \in DOMAIN ss /\ ss[id].token # ""

InitAuth == Init

\* the response of a call refused before its handler: NOT_AUTHENTICATED
NotAuthenticated == [ error |-> "NOT_AUTHENTICATED" ]

\* the auth_login tool: the handler, then the audit record
Tool_login ==
    /\ Len(auditLog) < MaxAuditRecords
    /\ received.n < MaxToolCalls
    /\ \E params \in LoginParams, ok \in BOOLEAN :
         LET h == AuthLogin(sessions, sessionId, params, ok, now)
         IN  /\ sessions' = h.sessions
             /\ auditLog' = AuditLogger_log(auditLog,
                   AuditRecord("auth.login",
                               SessionStore_getUsername(sessions, sessionId),
                               params, h.summary, now))
             /\ received' = OneMore([ summary |-> h.summary ])
    /\ UNCHANGED OtherThanAuth

\* the auth_logout tool: refused without a session, else destroy and audit
Tool_logout ==
    /\ Len(auditLog) < MaxAuditRecords
    /\ received.n < MaxToolCalls
    /\ IF ~HasToken(sessions, sessionId)
       THEN /\ UNCHANGED <<sessions, auditLog>>
            /\ received' = OneMore(NotAuthenticated)
       ELSE LET d == SessionStore_destroy(sessions, sessionId)
            IN  /\ sessions' = d.sessions
                /\ received' = OneMore([ summary |-> "logout" ])
                /\ auditLog' = AuditLogger_log(auditLog,
                      AuditRecord("auth.logout",
                                  SessionStore_getUsername(sessions, sessionId),
                                  << >>,
                                  IF d.ret THEN "Logged out successfully"
                                  ELSE "No active session", now))
    /\ UNCHANGED OtherThanAuth

\* the scope_set_default tool: refused without a session, else set and audit
Tool_set_default ==
    /\ Len(auditLog) < MaxAuditRecords
    /\ received.n < MaxToolCalls
    /\ \E scope \in Scopes :
         IF ~HasToken(sessions, sessionId)
         THEN /\ UNCHANGED <<sessions, auditLog>>
              /\ received' = OneMore(NotAuthenticated)
         ELSE /\ sessions' = SessionStore_setDefaultScope(sessions, sessionId,
                                                          scope).sessions
              /\ received' = OneMore([ summary |-> "Default scope set" ])
              /\ auditLog' = AuditLogger_log(auditLog,
                    AuditRecord("scope.set_default",
                                SessionStore_getUsername(sessions, sessionId),
                                scope, "Default scope set", now))
    /\ UNCHANGED OtherThanAuth

NextAuth ==
    \/ Tool_login
    \/ Tool_logout
    \/ Tool_set_default

SpecAuth == InitAuth /\ [][NextAuth]_vars

\* C23: every call the tool callback received, handled or refused, has
\* exactly one record in the audit log.
C23_OneRecordPerCall == Len(auditLog) = received.n

\* C14: no record in the audit log holds a credential: no value of its
\* params and not its result summary is a password, an integration or
\* bearer token, an OAuth consumer secret, access token or token secret.
C14_NoCredentialLogged ==
    \A i \in 1..Len(auditLog) :
        /\ \A p \in DOMAIN auditLog[i].params :
              auditLog[i].params[p] \notin SecretValues
        /\ auditLog[i].result_summary \notin SecretValues

----------------------------------------------------------------------------
(* PlanStore.cleanup, checked under Spec *)

\* a plan whose expiry has passed at time t
Expired(plan, t) == plan.expires_at < t

\* C24: cleanup removes exactly the expired plans and returns how many:
\* after it no expired plan is stored, every plan that had not expired is
\* still stored and unchanged, nothing is added, and the count returned is
\* the number of plans deleted.
C24_CleanupExact ==
    [][ (ret'.op = "cleanup" /\ now' = now) =>
          /\ \A i \in DOMAIN plans' : ~Expired(plans'[i], now)
          /\ \A i \in DOMAIN plans :
                ~Expired(plans[i], now) =>
                   i \in DOMAIN plans' /\ plans'[i] = plans[i]
          /\ DOMAIN plans' \subseteq DOMAIN plans
          /\ ret'.count = Cardinality(DOMAIN plans \ DOMAIN plans') ]_vars

\* a cleanup deleted one plan and kept another, which expires now
C24_Witness ==
    /\ ret.op = "cleanup"
    /\ ret.count = 1
    /\ \E i \in DOMAIN plans : plans[i].expires_at = now

----------------------------------------------------------------------------
(* IEEE 754 binary64 arithmetic, as far as checkPriceChangeThreshold uses  *)
(* it. A positive double is [ m, e ]: m its significand, SignificandBits   *)
(* bits with the most significant first and m[1] = 1, and e the exponent   *)
(* of m[1]; its value is the sum of m[i] * 2^(e + 1 - i).                  *)
SignificandBits == 53

DoubleZero == [ m |-> << >>, e |-> 0 ]

\* the binary digits of a natural number, most significant first
RECURSIVE BitsOf(_)
BitsOf(n) == IF n = 0 THEN << >> ELSE Append(BitsOf(n \div 2), n % 2)

\* 2^k modulo m
RECURSIVE Pow2Mod(_, _)
Pow2Mod(k, m) ==
    IF k = 0 THEN 1 % m
    ELSE LET h == Pow2Mod(k \div 2, m)
         IN  (h * h * (IF k % 2 = 1 THEN 2 ELSE 1)) % m

\* the first n digits of the binary expansion of r / d, for d <= r < 2 * d:
\* digit i is the integer part of r * 2^(i-1) / d, modulo 2
LongDivide(r, d, n) ==
    [ i \in 1..n |-> ((r * Pow2Mod(i - 1, 2 * d)) % (2 * d)) \div d ]

\* whether r / d has a non-zero digit after the first n
Inexact(r, d, n) == (r * Pow2Mod(n - 1, d)) % d # 0

\* numerator, denominator and exponent with 1 <= n / d < 2
RECURSIVE Normalise(_, _, _)
Normalise(n, d, e) ==
    IF n < d THEN Normalise(2 * n, d, e - 1)
    ELSE IF n >= 2 * d THEN Normalise(n, 2 * d, e + 1)
    ELSE [ n |-> n, d |-> d, e |-> e ]

\* a string of bits plus one: the last 0 becomes 1 and the 1s after it 0
Increment(bits) ==
    LET zeros == { i \in 1..Len(bits) : bits[i] = 0 }
    IN  IF zeros = {}
        THEN [ i \in 1..(Len(bits) + 1) |-> IF i = 1 THEN 1 ELSE 0 ]
        ELSE LET last == CHOOSE i \in zeros : \A j \in zeros : j <= i
             IN  [ i \in 1..Len(bits) |->
                     IF i < last THEN bits[i] ELSE IF i = last THEN 1 ELSE 0 ]

\* bits with zeros in front, or behind, up to length n
PadLeft(bits, n) ==
    [ i \in 1..n |-> IF i <= n - Len(bits) THEN 0 ELSE bits[i - (n - Len(bits))] ]
PadRight(bits, n) ==
    [ i \in 1..n |-> IF i <= Len(bits) THEN bits[i] ELSE 0 ]

\* round to nearest, ties to even: bits starts with a 1 of exponent e, and
\* sticky tells whether anything non-zero lies below the last of the bits
RoundToNearestEven(bits, e, sticky) ==
    LET all   == IF Len(bits) <= SignificandBits
                 THEN PadRight(bits, SignificandBits + 1)
                 ELSE bits
        kept  == SubSeq(all, 1, SignificandBits)
        half  == all[SignificandBits + 1] = 1
        below == sticky \/ \E i \in (SignificandBits + 2)..Len(all) : all[i] = 1
        up    == half /\ (below \/ kept[SignificandBits] = 1)
        m     == IF up THEN Increment(kept) ELSE kept
    IN  IF Len(m) > SignificandBits
        THEN [ m |-> SubSeq(m, 1, SignificandBits), e |-> e + 1 ]
        ELSE [ m |-> m, e |-> e ]

\* a / b in binary64, for integers a >= 0 and b > 0
DoubleDivide(a, b) ==
    IF a = 0 THEN DoubleZero
    ELSE LET f == Normalise(a, b, 0)
         IN  RoundToNearestEven(LongDivide(f.n, f.d, SignificandBits + 1), f.e,
                                Inexact(f.n, f.d, SignificandBits + 1))

\* the sum of two strings of bits: the carry into a position is generated
\* by a lower position where both have a 1 and passed on by the positions in
\* between where just one has
AddBits(x, y) ==
    LET n     == 1 + (IF Len(x) > Len(y) THEN Len(x) ELSE Len(y))
        a     == PadLeft(x, n)
        b     == PadLeft(y, n)
        carry == [ i \in 1..n |->
                     \E j \in (i + 1)..n :
                        /\ a[j] + b[j] = 2
                        /\ \A k \in (i + 1)..(j - 1) : a[k] + b[k] = 1 ]
    IN  [ i \in 1..n |-> (a[i] + b[i] + (IF carry[i] THEN 1 ELSE 0)) % 2 ]

\* the product of a string of bits and the number whose digits are k
RECURSIVE TimesBits(_, _)
TimesBits(m, k) ==
    IF k = << >> THEN << >>
    ELSE LET high == TimesBits(m, SubSeq(k, 1, Len(k) - 1)) \o <<0>>
         IN  IF k[Len(k)] = 1 THEN AddBits(high, m) ELSE high

\* the string of bits without the zeros in front
Stripped(bits) ==
    LET ones == { i \in 1..Len(bits) : bits[i] = 1 }
    IN  IF ones = {} THEN << >>
        ELSE SubSeq(bits, CHOOSE i \in ones : \A j \in ones : i <= j, Len(bits))

\* x * k in binary64, for a double x >= 0 and an integer k > 0
DoubleTimes(x, k) ==
    IF x = DoubleZero THEN DoubleZero
    ELSE LET p == Stripped(TimesBits(x.m, BitsOf(k)))
         IN  RoundToNearestEven(p, x.e + Len(p) - Len(x.m), FALSE)

\* x > n, for a double x >= 0 and an integer n >= 0
DoubleGreater(x, n) ==
    IF x = DoubleZero THEN FALSE
    ELSE IF n = 0 THEN TRUE
    ELSE LET nb == PadRight(BitsOf(n), SignificandBits)
             ne == Len(BitsOf(n)) - 1
         IN  \/ x.e > ne
             \/ /\ x.e = ne
                /\ \E i \in 1..SignificandBits :
                      /\ x.m[i] > nb[i]
                      /\ \A j \in 1..(i - 1) : x.m[j] = nb[j]

Abs(x) == IF x < 0 THEN -x ELSE x

\* the warning string checkPriceChangeThreshold returns
Warning == [ t |-> "string", v |-> <<"w">> ]

\* Guardrails.checkPriceChangeThreshold, under
\* config.priceChangeThresholdPercent = threshold, on integer prices (their
\* difference is exact, and the quotient of the magnitudes is the magnitude
\* of the quotient)
checkPriceChangeThreshold(threshold, currentPrice, newPrice) ==
    IF currentPrice = 0
    THEN Null
    ELSE LET pctChange ==
                DoubleTimes(DoubleDivide(Abs(newPrice - currentPrice),
                                         Abs(currentPrice)), 100)
         IN  IF DoubleGreater(pctChange, threshold) THEN Warning ELSE Null

----------------------------------------------------------------------------
(* SpecLimits: the numeric guardrails, Guardrails.enforceBulkSkuCap and    *)
(* Guardrails.checkPriceChangeThreshold, each called once on an input      *)
(* drawn from a bounded set, under a configuration drawn with it.          *)

\* the largest count and the largest price enumerated
MaxCount == 12
MaxPrice == 22

\* DEFAULT_CONFIG.maxSkusPerBulkCommit
DefaultMaxSkus == 500

\* the configured caps enumerated: the default and two small overrides
BulkCaps == { 1, maxSkusPerBulkCommit, DefaultMaxSkus }

\* products.length: the small counts and the counts at each cap
Counts == (0..MaxCount) \cup { cap + d : cap \in BulkCaps, d \in { -1, 0, 1 } }

BulkCapInputs ==
    { [ fn |-> "enforceBulkSkuCap", maxSkus |-> cap, count |-> count,
        outcome |-> Pending ] : cap \in BulkCaps, count \in Counts }

\* DEFAULT_CONFIG.priceChangeThresholdPercent
DefaultThreshold == 50

\* the configured thresholds enumerated: the default and an override
Thresholds == { DefaultThreshold, 110 }

PriceInputs ==
    { [ fn |-> "checkPriceChangeThreshold", threshold |-> t,
        currentPrice |-> c, newPrice |-> n, outcome |-> Pending ] :
      t \in Thresholds, c \in 0..MaxPrice, n \in 0..MaxPrice }

LimitInputs == BulkCapInputs \cup PriceInputs

InitLimits ==
    /\ plans = << >>
    /\ nextId = 0
    /\ now = 0
    /\ ret = NoRet
    /\ returned = [ i \in {} |-> 0 ]
    /\ dead = {}
    /\ ledger = << >>
    /\ calls = << >>
    /\ InitElsewhere
    /\ guard \in LimitInputs

OtherThanGuard ==
    <<plans, nextId, now, ret, returned, dead, ledger, calls, ledgerFile,
      Elsewhere>>

CallEnforceBulkSkuCap ==
    /\ guard.fn = "enforceBulkSkuCap"
    /\ guard.outcome = Pending
    /\ guard' = [ guard EXCEPT !.outcome =
                    enforceBulkSkuCap(guard.maxSkus, guard.count) ]
    /\ UNCHANGED OtherThanGuard

CallCheckPriceChangeThreshold ==
    /\ guard.fn = "checkPriceChangeThreshold"
    /\ guard.outcome = Pending
    /\ guard' = [ guard EXCEPT !.outcome =
                    checkPriceChangeThreshold(guard.threshold,
                                              guard.currentPrice,
                                              guard.newPrice) ]
    /\ UNCHANGED OtherThanGuard

NextLimits ==
    \/ CallEnforceBulkSkuCap
    \/ CallCheckPriceChangeThreshold

SpecLimits == InitLimits /\ [][NextLimits]_vars

\* C21: the bulk cap fails exactly when the count is greater than the
\* configured maximum, a count equal to the maximum passes, and the failure
\* carries both the actual count and the cap.
C21_BulkCapExact ==
    (guard.fn = "enforceBulkSkuCap" /\ guard.outcome # Pending) =>
        /\ (guard.outcome # Passed) = (guard.count > guard.maxSkus)
        /\ guard.outcome # Passed =>
              /\ guard.outcome.code = "BULK_CAP_EXCEEDED"
              /\ guard.outcome.details =
                    [ count |-> guard.count, cap |-> guard.maxSkus ]

\* 500 records under the default cap of 500 have passed
C21_Witness ==
    /\ guard.fn = "enforceBulkSkuCap"
    /\ guard.maxSkus = DefaultMaxSkus
    /\ guard.count = DefaultMaxSkus
    /\ guard.outcome = Passed

\* C22: the price check returns a warning exactly when the old price is not
\* zero and abs(new - old) * 100 is greater than threshold * abs(old); a
\* change equal to the threshold, or from an old price of zero, returns no
\* warning; the check returns a warning or null and never fails.
C22_AsStated ==
    (guard.fn = "checkPriceChangeThreshold" /\ guard.outcome # Pending) =>
        /\ guard.outcome \in { Warning, Null }
        /\ (guard.outcome = Warning) =
              /\ guard.currentPrice # 0
              /\ Abs(guard.newPrice - guard.currentPrice) * 100
                    > guard.threshold * Abs(guard.currentPrice)

----------------------------------------------------------------------------
(* SpecCapped: every prepare and commit handler under a bulk cap smaller   *)
(* than the number of records a match can resolve, each call counted with  *)
(* the way it ended.                                                       *)

\* config.maxSkusPerBulkCommit, set through MCP_MAX_SKUS
SmallCap == 1

InitCapped == Init

PrepareCapped ==
    /\ received.n < MaxToolCalls
    /\ PrepareOf(CommitActions, NoScope, MaxHandlerPlans, SmallCap, TRUE)

CommitCapped ==
    /\ received.n < MaxToolCalls
    /\ CommitOf(CommitActions, IdempotencyKeys, MaxHandlerCalls, TRUE)

NextCapped ==
    \/ PrepareCapped
    \/ CommitCapped
    \/ Respond

SpecCapped == InitCapped /\ [][NextCapped]_vars

\* the call ended in a GuardrailError
GuardrailFailure(outcome) == "ok" \in DOMAIN outcome /\ ~outcome.ok

\* the call was refused: by a guardrail, or by the schema of a commit, which
\* wants confirm to be true and a reason before the confirmation gate runs
Refused(outcome) == GuardrailFailure(outcome) \/ outcome = Thrown("ZodError")

\* C26: a call that ends in a guardrail failure changes nothing of the core
\* state: a commit refused for want of confirmation consumes no plan, leaves
\* the ledger and its snapshot alone and issues no mutation, and a prepare
\* refused by the allow-list or the bulk cap stores no plan.
C26_RefusalChangesNothing ==
    [][ (received'.n = received.n + 1 /\ Refused(received'.outcome))
          => UNCHANGED <<plans, nextId, ledger, ledgerFile, calls>> ]_vars

\* a commit naming a stored plan was refused for want of confirmation, and
\* the plan is still stored and no call was started
C26_Witness ==
    /\ GuardrailFailure(received.outcome)
    /\ received.outcome.code = "CONFIRMATION_REQUIRED"
    /\ plans # << >>
    /\ calls = << >>
    /\ ledger = << >>

\* C27: no bulk commit mutates more records than the configured cap: every
\* plan stored by a bulk prepare handler has at most cap records, its
\* affected_count is the number of records of its payload, and no execution
\* issues more mutation calls than the cap.
C27_AsStated ==
    /\ \A id \in DOMAIN plans :
          plans[id].action \in BulkCommits =>
             /\ Len(plans[id].payload.records) <= SmallCap
             /\ plans[id].affected_count = Len(plans[id].payload.records)
    /\ \A c \in 1..Len(calls) :
          calls[c].action \in BulkCommits => Len(calls[c].issued) <= SmallCap

----------------------------------------------------------------------------
(* SpecScope: plans prepared under a scope and committed while the session *)
(* is logged in and out and its default scope is set.                      *)

\* the handlers of this specification: one that passes a store code to its
\* mutation calls, one that does not
ScopeActions == { CatalogCommit, CmsPagesCommit }

\* params.scope of a prepare call: absent, or a store view
PlanScopes == { Undefined } \cup Scopes

\* the commit handlers that read payload.scope and pass its store view code
\* to client.put
PassesStoreCode(action) ==
    action \in { CatalogCommit, PricingCommit, SeoCommit }

\* the storeCode argument of the mutation calls of a commit, "" for none
storeCode(action, payload) ==
    IF PassesStoreCode(action) /\ payload.scope # Undefined
    THEN payload.scope.store_view_code
    ELSE ""

InitScope == Init

\* a prepare call, which the tool callback lets through for a session that
\* holds a token
PrepareScoped ==
    /\ HasToken(sessions, sessionId)
    /\ PrepareOf(ScopeActions, PlanScopes, MaxHandlerPlans,
                 maxSkusPerBulkCommit, FALSE)

CommitScoped ==
    /\ HasToken(sessions, sessionId)
    /\ CommitOf(ScopeActions, NoScope, MaxHandlerCalls, FALSE)

NextScope ==
    \/ Tool_login
    \/ Tool_logout
    \/ Tool_set_default
    \/ PrepareScoped
    \/ CommitScoped
    \/ Respond

SpecScope == InitScope /\ [][NextScope]_vars

\* C28: the scope attached to a plan is immutable: no step changes the scope
\* of a stored plan, and every mutation call of a commit is addressed to the
\* scope of the plan's payload, whatever was done to the session since the
\* plan was prepared.
C28_AsStated ==
    [][ /\ \A id \in DOMAIN plans \cap DOMAIN plans' :
              plans'[id].payload.scope = plans[id].payload.scope
        /\ \A c \in 1..Len(calls') :
              ( /\ calls'[c].issued # << >>
                /\ calls'[c].plan.payload.scope # Undefined )
              => storeCode(calls'[c].action, calls'[c].plan.payload)
                    = calls'[c].plan.payload.scope.store_view_code
      ]_vars

----------------------------------------------------------------------------
(* SpecRun: commits running while the SessionStore is driven under them,   *)
(* with every downstream call answered in the end.                         *)

OtherThanSession ==
    <<plans, nextId, now, ret, returned, dead, ledger, calls, guard,
      ledgerFile, lret, sret, auditLog, rest, received>>

InitRun == Init

\* a login: SessionStore.create replaces the session of the connection
RunLogin ==
    /\ \E login \in Logins :
         sessions' = SessionStore_create(sessions, sessionId, login.baseUrl,
                                         login.token, login.username,
                                         now).sessions
    /\ UNCHANGED OtherThanSession

\* a logout: SessionStore.destroy
RunLogout ==
    /\ sessions' = SessionStore_destroy(sessions, sessionId).sessions
    /\ UNCHANGED OtherThanSession

\* scope.set_default: SessionStore.setDefaultScope
RunSetDefault ==
    /\ \E scope \in Scopes :
         sessions' = SessionStore_setDefaultScope(sessions, sessionId,
                                                  scope).sessions
    /\ UNCHANGED OtherThanSession

RunPrepare ==
    /\ HasToken(sessions, sessionId)
    /\ PrepareOf(ScopeActions, NoScope, MaxHandlerPlans, maxSkusPerBulkCommit,
                 FALSE)

\* a commit call: context.getClient() gives the handler a client of its own
\* before its loop, so what follows in the session does not reach it
RunCommit ==
    /\ HasToken(sessions, sessionId)
    /\ CommitOf(ScopeActions, NoScope, MaxHandlerCalls, FALSE)

NextRun ==
    \/ RunLogin
    \/ RunLogout
    \/ RunSetDefault
    \/ RunPrepare
    \/ RunCommit
    \/ Respond

\* the platform answers each request, or the request fails, and the handler
\* awaiting it resumes
SpecRun == InitRun /\ [][NextRun]_vars /\ WF_vars(Respond)

\* call c is suspended at a mutation call
Suspended(c) == Len(calls) >= c /\ calls[c].pc = "await"

\* call c has returned a result with every record of its plan attempted
RanToCompletion(c) ==
    /\ Len(calls) >= c
    /\ calls[c].pc = "done"
    /\ Kind(calls[c].outcome) = "result"
    /\ calls[c].issued = calls[c].plan.payload.records
    /\ Answered(c) = Len(calls[c].plan.payload.records)

\* C30: once a commit has consumed its plan it runs to completion: no call
\* that received a plan from planStore.consume returns before it has
\* attempted every record of the payload, and when it returns it returns a
\* result; no logout, login, failed record or other call stops it earlier.
C30_AsStated ==
    \A c \in 1..Len(calls) :
        (Received(c) /\ calls[c].pc = "done") => RanToCompletion(c)

\* what holds of a commit from its first mutation call on, when every
\* downstream call is answered in the end: it attempts every record and
\* returns a result
RunsToCompletionOnceStarted ==
    \A c \in 1..MaxHandlerCalls : Suspended(c) ~> RanToCompletion(c)

----------------------------------------------------------------------------
(* SpecOAuth: the parameter string of the OAuth signature base string that *)
(* MagentoRestClient.buildOAuthHeader builds for a search request. Strings *)
(* are sequences of characters.                                            *)

\* the largest number of filter groups of a search
MaxGroups == 11

\* the characters of the keys and values, in the order of their UTF-16 code
\* units ("%" 0x25, "-", ".", the digits, the capitals, "[" 0x5B, "]" 0x5D,
\* "_", the small letters)
CodeUnits ==
    << "%", "-", ".", "0", "1", "2", "3", "4", "5", "6", "7", "8", "9",
       "A", "B", "C", "D", "E", "F", "G", "H", "I", "J", "K", "L", "M",
       "N", "O", "P", "Q", "R", "S", "T", "U", "V", "W", "X", "Y", "Z",
       "[", "]", "_", "a", "b", "c", "d", "e", "f", "g", "h", "i", "j",
       "k", "l", "m", "n", "o", "p", "q", "r", "s", "t", "u", "v", "w",
       "x", "y", "z" >>

\* the rank of a character in code unit order
CodeUnit(c) == CHOOSE i \in 1..Len(CodeUnits) : CodeUnits[i] = c

\* the default comparison of Array.prototype.sort on strings: a sorts before
\* b when a is a proper prefix of b or has the smaller code unit at the
\* first position where they differ
SortsBefore(a, b) ==
    \E i \in 1..(Len(a) + 1) :
        /\ \A j \in 1..(i - 1) : j <= Len(b) /\ a[j] = b[j]
        /\ i <= Len(b)
        /\ (i <= Len(a) => CodeUnit(a[i]) < CodeUnit(b[i]))

\* encodeURIComponent on one character: "[", "]" and "%" are escaped, the
\* other characters of CodeUnits are unreserved
EncodeChar(c) ==
    IF c = "[" THEN <<"%", "5", "B">>
    ELSE IF c = "]" THEN <<"%", "5", "D">>
    ELSE IF c = "%" THEN <<"%", "2", "5">>
    ELSE <<c>>

\* MagentoRestClient.rfc3986Encode (none of the characters ! ' ( ) * occurs)
RECURSIVE rfc3986Encode(_)
rfc3986Encode(str) ==
    IF Len(str) = 0 THEN << >>
    ELSE IF Len(str) = 1 THEN EncodeChar(str[1])
    ELSE LET half == Len(str) \div 2
         IN  rfc3986Encode(SubSeq(str, 1, half))
                \o rfc3986Encode(SubSeq(str, half + 1, Len(str)))

\* String(n) for 0 <= n < 100
DecimalDigits(n) ==
    LET digit(d) == CodeUnits[CodeUnit("0") + d]
    IN  IF n < 10 THEN <<digit(n)>> ELSE <<digit(n \div 10), digit(n % 10)>>

\* `[${part}]`
Bracketed(part) == <<"[">> \o part \o <<"]">>

SearchCriteria ==
    << "s", "e", "a", "r", "c", "h", "C", "r", "i", "t", "e", "r", "i",
       "a" >>

\* `searchCriteria[filterGroups][${gi}][filters][${fi}][${property}]`
FilterKey(gi, fi, property) ==
    SearchCriteria \o Bracketed(<<"f", "i", "l", "t", "e", "r", "G", "r", "o", "u", "p", "s">>)
        \o Bracketed(DecimalDigits(gi))
        \o Bracketed(<<"f", "i", "l", "t", "e", "r", "s">>) \o Bracketed(DecimalDigits(fi))
        \o Bracketed(property)

\* `searchCriteria[sortOrders][${i}][${property}]`
SortKey(i, property) ==
    SearchCriteria \o Bracketed(<<"s", "o", "r", "t", "O", "r", "d", "e", "r", "s">>)
        \o Bracketed(DecimalDigits(i)) \o Bracketed(property)

\* the entries of a record, in insertion order
Entry(key, value) == [ key |-> key, value |-> value ]

\* MagentoRestClient.buildSearchParams, for criteria of groups filter groups
\* of one filter each, with or without a condition type, sorts sort orders
\* and, when paged, a page size and a current page
buildSearchParams(criteria) ==
    LET filter(gi) ==
            << Entry(FilterKey(gi, 0, <<"f", "i", "e", "l", "d">>), <<"s", "k", "u">>),
               Entry(FilterKey(gi, 0, <<"v", "a", "l", "u", "e">>), <<"a">>) >>
            \o (IF criteria.conditionType
                THEN << Entry(FilterKey(gi, 0, <<"c", "o", "n", "d", "i", "t", "i", "o", "n", "T", "y", "p", "e">>),
                              <<"e", "q">>) >>
                ELSE << >>)
        RECURSIVE groups(_)
        groups(n) == IF n = 0 THEN << >> ELSE groups(n - 1) \o filter(n - 1)
        sort(i) ==
            << Entry(SortKey(i, <<"f", "i", "e", "l", "d">>), <<"n", "a", "m", "e">>),
               Entry(SortKey(i, <<"d", "i", "r", "e", "c", "t", "i", "o", "n">>), <<"A", "S", "C">>) >>
    IN  groups(criteria.groups)
        \o (IF criteria.sorts > 0 THEN sort(0) ELSE << >>)
        \o (IF criteria.paged
            THEN << Entry(SearchCriteria \o Bracketed(<<"p", "a", "g", "e", "S", "i", "z", "e">>),
                          <<"2", "0", "0">>),
                    Entry(SearchCriteria \o Bracketed(<<"c", "u", "r", "r", "e", "n", "t", "P", "a", "g", "e">>),
                          <<"1">>) >>
            ELSE << >>)

\* the OAuth protocol parameters of buildOAuthHeader, for one nonce and one
\* timestamp
oauthParams ==
    << Entry(<<"o", "a", "u", "t", "h", "_", "c", "o", "n", "s", "u", "m", "e", "r", "_", "k", "e", "y">>,
             <<"c", "k">>),
       Entry(<<"o", "a", "u", "t", "h", "_", "n", "o", "n", "c", "e">>, <<"0", "a">>),
       Entry(<<"o", "a", "u", "t", "h", "_", "s", "i", "g", "n", "a", "t", "u", "r", "e", "_", "m", "e", "t", "h", "o", "d">>,
             <<"H", "M", "A", "C", "-", "S", "H", "A", "2", "5", "6">>),
       Entry(<<"o", "a", "u", "t", "h", "_", "t", "i", "m", "e", "s", "t", "a", "m", "p">>, <<"1", "7">>),
       Entry(<<"o", "a", "u", "t", "h", "_", "t", "o", "k", "e", "n">>, <<"o", "t">>),
       Entry(<<"o", "a", "u", "t", "h", "_", "v", "e", "r", "s", "i", "o", "n">>, <<"1", ".", "0">>) >>

\* allParams: the protocol parameters, then each query parameter assigned
\* under its key
allParams(queryParams) ==
    LET kept == SelectSeq(oauthParams,
                  LAMBDA e : \A i \in 1..Len(queryParams) :
                                queryParams[i].key # e.key)
    IN  kept \o queryParams

\* paramString before the join with "&": Object.keys(allParams).sort(), each
\* key mapped to its encoded key and encoded value
paramString(queryParams) ==
    LET all    == allParams(queryParams)
        sorted == SortSeq(all, LAMBDA x, y : SortsBefore(x.key, y.key))
    IN  [ i \in 1..Len(sorted) |->
            Entry(rfc3986Encode(sorted[i].key), rfc3986Encode(sorted[i].value)) ]

SearchCriteriaInputs ==
    [ groups : 0..MaxGroups, conditionType : BOOLEAN, sorts : 0..1,
      paged : BOOLEAN ]

InitOAuth ==
    /\ plans = << >>
    /\ nextId = 0
    /\ now = 0
    /\ ret = NoRet
    /\ returned = [ i \in {} |-> 0 ]
    /\ dead = {}
    /\ ledger = << >>
    /\ calls = << >>
    /\ guard = Absent
    /\ ledgerFile = NoFile
    /\ lret = [ op |-> "load" ]
    /\ sessions = << >>
    /\ sret = NoSessionCall
    /\ auditLog = << >>
    /\ received = NoCall
    /\ \E criteria \in SearchCriteriaInputs :
         rest = [ criteria |-> criteria, paramString |-> Pending ]

\* buildOAuthHeader on a GET of the search: the parameter string it signs
BuildOAuthHeader ==
    /\ rest.paramString = Pending
    /\ rest' = [ rest EXCEPT !.paramString =
                   paramString(buildSearchParams(rest.criteria)) ]
    /\ UNCHANGED OtherThanClient

NextOAuth == BuildOAuthHeader

SpecOAuth == InitOAuth /\ [][NextOAuth]_vars

\* the order of RFC 5849, 3.4.1.3.2: by encoded key, then by encoded value
EncodedOrder(x, y) ==
    \/ SortsBefore(x.key, y.key)
    \/ x.key = y.key /\ (x.value = y.value \/ SortsBefore(x.value, y.value))

\* C29: in the parameter string the merged protocol and query parameters
\* stand in the order of their percent-encoded keys, then values, whatever
\* the query keys are, and every protocol and query parameter stands there
\* exactly once.
C29_AsStated ==
    rest.paramString # Pending =>
        LET params == rest.paramString
            merged == oauthParams \o buildSearchParams(rest.criteria)
        IN  /\ \A i, j \in 1..Len(params) :
                  i < j => EncodedOrder(params[i], params[j])
            /\ \A m \in 1..Len(merged) :
                  Cardinality({ i \in 1..Len(params) :
                                  params[i] = Entry(rfc3986Encode(merged[m].key),
                                                    rfc3986Encode(merged[m].value))
                              }) = 1

====
